---- MODULE Spec2Model ----
(***************************************************************************)
(* Model of system_info_utils::SystemInfoReader (system_info_reader.cpp).  *)
(*                                                                         *)
(* Build configuration modelled: exceptions enabled (SYSTEM_INFO_TRY is    *)
(* `try`, definitions.h:28-32) and NDEBUG as set below.                    *)
(*                                                                         *)
(* Representation:                                                         *)
(*  - a std::string is a sequence of one-character strings, "" is <<>>;    *)
(*  - a uint32_t is a pair of 16-bit limbs <<lo, hi>>, a 64-bit JSON       *)
(*    number four limbs (two's complement), so that static_cast<uint32_t>  *)
(*    keeps its width;                                                     *)
(*  - a nlohmann::json node is [type, val]; an object's val is a function  *)
(*    from member names to nodes, an array's val a sequence of nodes.      *)
(***************************************************************************)
EXTENDS Integers, Sequences, FiniteSets, TLC

\* ------------------------------------------------------------------------
\* Fixed-width numbers
\* ------------------------------------------------------------------------
Limb == 65536

\* The uint32_t with value n (n small).
U32(n) == <<n % Limb, n \div Limb>>

\* The 64-bit unsigned number with value n (n small).
U64(n) == <<n % Limb, n \div Limb, 0, 0>>

\* The 64-bit two's complement of -n (0 < n < Limb).
Neg64(n) == <<Limb - n, Limb - 1, Limb - 1, Limb - 1>>

\* static_cast<uint32_t> of a 64-bit number: the low 32 bits.
CastU32(w) == <<w[1], w[2]>>

\* ------------------------------------------------------------------------
\* nlohmann::json nodes
\* ------------------------------------------------------------------------
JNull == [type |-> "null", val |-> <<>>]
JBool(b) == [type |-> "boolean", val |-> b]
JUnsigned(n) == [type |-> "number_unsigned", val |-> U64(n)]
JNegative(n) == [type |-> "number_integer", val |-> Neg64(n)]
JWide(w) == [type |-> "number_unsigned", val |-> w]
JString(s) == [type |-> "string", val |-> s]
JArray(a) == [type |-> "array", val |-> a]
JObject(f) == [type |-> "object", val |-> f]
JEmptyObject == [type |-> "object", val |-> <<>>]

\* Data model of the build: unsigned long is std::uint64_t (LP64).
LP64 == TRUE

\* basic_json::contains(key): true only for an object that has the key.
contains(parent, name) ==
    parent.type = "object" /\ name \in DOMAIN parent.val

\* basic_json::is_object().
is_object(node) == node.type = "object"

\* Implicit conversion of a node to T (basic_json::operator T, from_json):
\* TRUE when it throws type_error 302.
\*   uint32_t: number or boolean; uint64_t: number; std::string: string;
\*   bool: boolean.  "uint32to64" is a uint32_t read into a uint64_t field,
\*   "ulongto32" an unsigned long read into a uint32_t field.
ConvThrows(node, kind) ==
    CASE kind \in {"uint32", "uint32to64"} ->
            node.type \notin {"number_unsigned", "number_integer", "boolean"}
      [] kind = "ulongto32" ->
            IF LP64
            THEN node.type \notin {"number_unsigned", "number_integer"}
            ELSE node.type \notin {"number_unsigned", "number_integer", "boolean"}
      [] kind = "uint64" -> node.type \notin {"number_unsigned", "number_integer"}
      [] kind = "string" -> node.type # "string"
      [] kind = "bool"   -> node.type # "boolean"

\* The converted value, when the conversion does not throw.
Conv(node, kind) ==
    CASE kind \in {"uint32", "ulongto32"} ->
            IF node.type = "boolean"
            THEN (IF node.val THEN U32(1) ELSE U32(0))
            ELSE CastU32(node.val)
      [] kind = "uint32to64" ->
            IF node.type = "boolean"
            THEN (IF node.val THEN U64(1) ELSE U64(0))
            ELSE <<node.val[1], node.val[2], 0, 0>>
      [] kind = "uint64" -> node.val
      [] kind = "string" -> node.val
      [] kind = "bool"   -> node.val

\* ------------------------------------------------------------------------
\* Helpers of the anonymous namespace
\* ------------------------------------------------------------------------

\* Get<T>(parent, name, fallback) throws iff the member exists and does not
\* convert to T.
GetThrows(parent, name, kind) ==
    contains(parent, name) /\ ConvThrows(parent.val[name], kind)

\* Get<T>(parent, name, fallback): the member converted to T, or fallback.
Get(parent, name, kind, fallback) ==
    IF contains(parent, name)
    THEN Conv(parent.val[name], kind)
    ELSE fallback

\* DoesNodeExist(parent, name): parent.find(name) != parent.end(); find on a
\* node that is not an object returns end().
DoesNodeExist(parent, name) ==
    parent.type = "object" /\ name \in DOMAIN parent.val

\* ------------------------------------------------------------------------
\* Outcome of a step that may throw: the target as written so far.
\* ------------------------------------------------------------------------
Ok(x) == [threw |-> FALSE, out |-> x]
Threw(x) == [threw |-> TRUE, out |-> x]

\* target.field as a callee left it: the callee writes through a reference,
\* so what it wrote before throwing stays in the target.
Into(target, field, r) ==
    [threw |-> r.threw, out |-> [target EXCEPT ![field] = r.out]]

\* After prev:  if (present) { next }  where next continues from prev.out.
Optional(prev, present, next) ==
    IF prev.threw THEN prev
    ELSE IF present THEN next
    ELSE prev

\* After prev:  if (DoesNodeExist(node, name)) Process...(node[name], target.field);
\* sub is the callee's outcome on prev.out.field.
Section(prev, present, field, sub) ==
    IF prev.threw THEN prev
    ELSE IF present THEN Into(prev.out, field, sub)
    ELSE prev

\* A run of assignments  target.field = Get<kind>(parent, name, fallback);
\* in source order; an exception leaves the earlier assignments in place.
RECURSIVE GetFields(_, _, _)
GetFields(target, parent, steps) ==
    IF steps = <<>>
    THEN Ok(target)
    ELSE LET s == Head(steps)
         IN  IF GetThrows(parent, s.name, s.kind)
             THEN Threw(target)
             ELSE GetFields([target EXCEPT ![s.field] = Get(parent, s.name, s.kind, s.fallback)],
                            parent, Tail(steps))

Step(f, n, k, d) == [field |-> f, name |-> n, kind |-> k, fallback |-> d]

\* Member names in the order std::map keeps them (ascending byte order).
KeyOrder ==
    << "a", "architecture", "asic", "b", "bandwidthBytesPerSec", "base", "bigSw", "build",
       "bus", "busBitWidth", "config", "cpuId", "cpuTimeClockFreq", "cpus", "cuMask",
       "description", "devdriver", "device", "deviceId", "driver", "drm", "eRev",
       "engineClockHz", "etwSupport", "excludedVaRanges", "extra", "family", "function",
       "gfxEngine", "gpuCounterFreq", "gpuIndex", "gpus", "hasPermission", "hbccSize",
       "heaps", "hostname", "ids", "invisible", "isClosedSource", "isSupported", "linux",
       "local", "luid", "major", "max", "memClockHz", "memOpsPerClock", "memory", "min",
       "minor", "misc", "name", "needsRegistryOrUserGroup", "numCus", "numLogicalCores",
       "numPhysicalCores", "numShaderArraysPerEngine", "numShaderEngines", "os",
       "packagingVersion", "patch", "path", "pci", "physical", "physicalAddress",
       "powerDpmWritable", "processId", "processes", "revision", "size", "softwareVersion",
       "speed", "statusCode", "subsystem", "swap", "system", "tag", "type", "vendor",
       "vendorId", "version", "virtualization", "windows" >>

\* The characters of a member name (iterator::key() as a std::string).
KeyChars(k) ==
    CASE k = "local"     -> <<"l", "o", "c", "a", "l">>
      [] k = "invisible" -> <<"i", "n", "v", "i", "s", "i", "b", "l", "e">>
      [] k = "a"         -> <<"a">>
      [] k = "b"         -> <<"b">>
      [] OTHER           -> <<"?">>

\* Elements visited by begin()..end(): the items of an array, the member
\* values of an object in key order, nothing for null, and the node itself
\* for any other primitive.  keyed: whether iterator::key() is defined.
Elements(node) ==
    CASE node.type = "array" ->
            [i \in 1..Len(node.val) |-> [keyed |-> FALSE, key |-> "", node |-> node.val[i]]]
      [] node.type = "object" ->
            LET ks == SelectSeq(KeyOrder, LAMBDA k: k \in DOMAIN node.val)
            IN  [i \in 1..Len(ks) |-> [keyed |-> TRUE, key |-> ks[i], node |-> node.val[ks[i]]]]
      [] node.type = "null" -> <<>>
      [] OTHER -> <<[keyed |-> FALSE, key |-> "", node |-> node]>>

\* ------------------------------------------------------------------------
\* JSON texts.  A text is [wellformed, spaced, src]: src is the value as
\* written, an object being the sequence of its [key, value] members in
\* document order; spaced tells that the text has white space between
\* tokens.
\* ------------------------------------------------------------------------
SrcObject(members) == [type |-> "object", val |-> members]
Member(k, v) == [key |-> k, value |-> v]

\* The value a written value parses to: an object keeps one member per
\* name, the last one written, and no order of its own.
RECURSIVE ParseValue(_)
ParseValue(s) ==
    CASE s.type = "object" ->
            JObject([k \in {s.val[i].key : i \in DOMAIN s.val} |->
                        LET last == CHOOSE i \in DOMAIN s.val :
                                        /\ s.val[i].key = k
                                        /\ \A j \in DOMAIN s.val : s.val[j].key = k => j <= i
                        IN  ParseValue(s.val[last].value)])
      [] s.type = "array" -> JArray([i \in DOMAIN s.val |-> ParseValue(s.val[i])])
      [] OTHER -> s

\* nlohmann::json::parse(text) for a text that is a JSON document.
parse(text) == ParseValue(text.src)

\* A value as dump() writes it: members in the order of the map.
RECURSIVE DumpValue(_)
DumpValue(node) ==
    CASE node.type = "object" ->
            LET ks == SelectSeq(KeyOrder, LAMBDA k: k \in DOMAIN node.val)
            IN  SrcObject([i \in 1..Len(ks) |-> Member(ks[i], DumpValue(node.val[ks[i]]))])
      [] node.type = "array" -> JArray([i \in DOMAIN node.val |-> DumpValue(node.val[i])])
      [] OTHER -> node

\* basic_json::dump(): the compact text of a value.
dump(node) == [wellformed |-> TRUE, spaced |-> FALSE, src |-> DumpValue(node)]

\* ------------------------------------------------------------------------
\* The output record (system_info_reader.h), value-initialised
\* ------------------------------------------------------------------------
Version0 == [major |-> U32(0), minor |-> U32(0), patch |-> U32(0), build |-> U32(0)]

DevDriverInfo0 == [major_version |-> U32(0), tag |-> <<>>]

OsMemoryInfo0 == [physical |-> U64(0), swap |-> U64(0), type |-> <<>>]

EtwSupportInfo0 ==
    [is_supported |-> FALSE, has_permission |-> FALSE, status_code |-> U32(0),
     needs_rgp_registry_or_usergroup |-> FALSE]

ConfigInfo0 ==
    [power_dpm_writable |-> FALSE, drm_major_version |-> U32(0),
     drm_minor_version |-> U32(0), etw_support_info |-> EtwSupportInfo0]

OsInfo0 ==
    [name |-> <<>>, desc |-> <<>>, hostname |-> <<>>, memory |-> OsMemoryInfo0,
     config |-> ConfigInfo0]

CpuInfo0 ==
    [name |-> <<>>, cpu_id |-> <<>>, device_id |-> <<>>, architecture |-> <<>>,
     vendor_id |-> <<>>, virtualization |-> <<>>, num_physical_cores |-> U32(0),
     num_logical_cores |-> U32(0), max_clock_speed |-> U32(0),
     timestamp_clock_frequency |-> U64(0)]

PciInfo0 == [id |-> U32(0), bus |-> U32(0), device |-> U32(0), function |-> U32(0)]

ClockInfo0 == [min |-> U64(0), max |-> U64(0)]

IdInfo0 ==
    [gfx_engine |-> U32(0), family |-> U32(0), e_rev |-> U32(0), revision |-> U32(0),
     device |-> U32(0), subsystem |-> U32(0), vendor |-> U32(0),
     luid |-> <<0, 0, 0, 0, 0, 0, 0, 0>>]

AsicInfo0 ==
    [gpu_index |-> U32(0), gpu_counter_freq |-> U64(0), engine_clock_hz |-> ClockInfo0,
     num_shader_engines |-> U32(0), num_shader_arrays_per_engine |-> U32(0),
     cu_mask |-> <<>>, num_cus |-> U32(0), id_info |-> IdInfo0]

HeapInfo0 == [heap_type |-> <<>>, phys_addr |-> U64(0), size |-> U64(0)]

ExcludedRangeInfo0 == [base |-> U64(0), size |-> U64(0)]

MemoryInfo0 ==
    [type |-> <<>>, mem_ops_per_clock |-> U32(0), bus_bit_width |-> U32(0),
     bandwidth |-> U64(0), mem_clock_hz |-> ClockInfo0, heaps |-> <<>>,
     excluded_va_ranges |-> <<>>]

SoftwareVersion0 == [major |-> U32(0), minor |-> U32(0), misc |-> U32(0)]

GpuInfo0 ==
    [name |-> <<>>, pci |-> PciInfo0, asic |-> AsicInfo0, memory |-> MemoryInfo0,
     big_sw |-> SoftwareVersion0]

Process0 == [name |-> <<>>, path |-> <<>>, id |-> U32(0)]

DriverInfo0 ==
    [packaging_version_major |-> U32(0), packaging_version_minor |-> U32(0),
     name |-> <<>>, description |-> <<>>, packaging_version |-> <<>>,
     software_version |-> <<>>, is_closed_source |-> FALSE]

SystemInfo0 ==
    [version |-> Version0, driver |-> DriverInfo0, devdriver |-> DevDriverInfo0,
     os |-> OsInfo0, cpus |-> <<>>, gpus |-> <<>>, processes |-> <<>>]

\* The loop with each entry put in front of the list.
AppendEach_Reversed(list, results) ==
    LET n   == Len(results)
        bad == {i \in 1..n : results[i].threw}
        k   == IF bad = {} THEN n ELSE (CHOOSE i \in bad : \A j \in bad : i <= j) - 1
    IN  [threw |-> bad # {}, out |-> [i \in 1..k |-> results[k + 1 - i].out] \o list]

\* The list after the loop  for (e : elements) { x = P(e); list.push_back(x); }
\* given the per-element outcomes: the elements before the first throw are
\* appended, the local of the throwing iteration is lost.
AppendEach(list, results) ==
    LET n   == Len(results)
        bad == {i \in 1..n : results[i].threw}
        k   == IF bad = {} THEN n ELSE (CHOOSE i \in bad : \A j \in bad : i <= j) - 1
    IN  [threw |-> bad # {}, out |-> list \o [i \in 1..k |-> results[i].out]]

\* ------------------------------------------------------------------------
\* SystemInfoParserV1
\* ------------------------------------------------------------------------
ProcessDevDriverNode(dev_driver_root, dev_driver_info) ==
    LET r1 == Optional(Ok(dev_driver_info), DoesNodeExist(dev_driver_root, "version"),
                       GetFields(dev_driver_info, dev_driver_root.val["version"],
                                 <<Step("major_version", "major", "uint32", U32(0))>>))
    IN  Optional(r1, TRUE,
                 GetFields(r1.out, dev_driver_root, <<Step("tag", "tag", "string", <<>>)>>))

ProcessOsMemoryNode(memory_root, memory_info) ==
    GetFields(memory_info, memory_root,
              << Step("physical", "physical", "uint64", U64(0)),
                 Step("swap", "swap", "uint64", U64(0)),
                 Step("type", "name", "string", <<>>) >>)

ProcessEtwNode(etw_root, etw_info) ==
    GetFields(etw_info, etw_root,
              << Step("is_supported", "isSupported", "bool", FALSE),
                 Step("has_permission", "hasPermission", "bool", FALSE),
                 Step("status_code", "statusCode", "ulongto32", U32(0)),
                 Step("needs_rgp_registry_or_usergroup", "needsRegistryOrUserGroup", "bool", FALSE) >>)

\* The "linux" part of the config node, written into os_info.config.
ProcessLinuxConfig(linux_root, config) ==
    LET r1 == GetFields(config, linux_root,
                        <<Step("power_dpm_writable", "powerDpmWritable", "bool", FALSE)>>)
    IN  Optional(r1, DoesNodeExist(linux_root, "drm"),
                 GetFields(r1.out, linux_root.val["drm"],
                           << Step("drm_major_version", "major", "uint32", U32(0)),
                              Step("drm_minor_version", "minor", "uint32", U32(0)) >>))

\* The "windows" part of the config node.
ProcessWindowsConfig(windows_root, config) ==
    Section(Ok(config), DoesNodeExist(windows_root, "etwSupport"), "etw_support_info",
            ProcessEtwNode(windows_root.val["etwSupport"], config.etw_support_info))

\* The config node: linux first, then windows.
ProcessConfig(config_root, config) ==
    LET r1 == Optional(Ok(config), DoesNodeExist(config_root, "linux"),
                       ProcessLinuxConfig(config_root.val["linux"], config))
    IN  Optional(r1, DoesNodeExist(config_root, "windows"),
                 ProcessWindowsConfig(config_root.val["windows"], r1.out))

ProcessOsNode(os_root, os_info) ==
    LET r1 == GetFields(os_info, os_root,
                        << Step("name", "name", "string", <<>>),
                           Step("desc", "description", "string", <<>>),
                           Step("hostname", "hostname", "string", <<>>) >>)
        r2 == Section(r1, DoesNodeExist(os_root, "memory"), "memory",
                      ProcessOsMemoryNode(os_root.val["memory"], r1.out.memory))
    IN  Section(r2, DoesNodeExist(os_root, "config"), "config",
                ProcessConfig(os_root.val["config"], r2.out.config))

\* One iteration of the loop of ProcessCpusNode: the local cpu.
ProcessCpuNode(cpu_node) ==
    LET r1 == GetFields(CpuInfo0, cpu_node,
                        << Step("name", "name", "string", <<>>),
                           Step("architecture", "architecture", "string", <<>>),
                           Step("cpu_id", "cpuId", "string", <<>>),
                           Step("device_id", "deviceId", "string", <<>>),
                           Step("vendor_id", "vendorId", "string", <<>>),
                           Step("num_logical_cores", "numLogicalCores", "uint32", U32(0)),
                           Step("num_physical_cores", "numPhysicalCores", "uint32", U32(0)) >>)
        r2 == Optional(r1, DoesNodeExist(cpu_node, "virtualization"),
                       GetFields(r1.out, cpu_node,
                                 <<Step("virtualization", "virtualization", "string", <<>>)>>))
        r3 == Optional(r2, DoesNodeExist(cpu_node, "speed"),
                       GetFields(r2.out, cpu_node.val["speed"],
                                 <<Step("max_clock_speed", "max", "uint32", U32(0))>>))
    IN  Optional(r3, TRUE,
                 GetFields(r3.out, cpu_node,
                           <<Step("timestamp_clock_frequency", "cpuTimeClockFreq", "uint64",
                                  U64(0))>>))

ProcessCpusNode(cpus_root, cpus) ==
    LET es == Elements(cpus_root)
    IN  AppendEach(cpus, [i \in 1..Len(es) |-> ProcessCpuNode(es[i].node)])

ProcessGpuPciNode(pci_root, pci_info) ==
    GetFields([pci_info EXCEPT !.id = U32(0)], pci_root,
              << Step("bus", "bus", "uint32", U32(0)),
                 Step("device", "device", "uint32", U32(0)),
                 Step("function", "function", "uint32", U32(0)) >>)

\* ------------------------------------------------------------------------
\* C library and std::string helpers
\* ------------------------------------------------------------------------
NPOS == -1

DecDigits == <<"0", "1", "2", "3", "4", "5", "6", "7", "8", "9">>
HexLower == <<"a", "b", "c", "d", "e", "f">>
HexUpper == <<"A", "B", "C", "D", "E", "F">>

IndexOf(seq, c) == IF \E i \in 1..Len(seq) : seq[i] = c
                   THEN CHOOSE i \in 1..Len(seq) : seq[i] = c
                   ELSE 0

\* Value of c as a digit of the base (10 or 16), or -1.
DigitVal(c, base) ==
    IF IndexOf(DecDigits, c) > 0 THEN IndexOf(DecDigits, c) - 1
    ELSE IF base = 16 /\ IndexOf(HexLower, c) > 0 THEN 9 + IndexOf(HexLower, c)
    ELSE IF base = 16 /\ IndexOf(HexUpper, c) > 0 THEN 9 + IndexOf(HexUpper, c)
    ELSE -1

\* std::string::substr(pos, n), pos <= size().
Substr(str, pos, n) ==
    SubSeq(str, pos + 1, IF pos + n > Len(str) THEN Len(str) ELSE pos + n)

\* std::string::find_first_of(c).
find_first_of(str, c) ==
    IF \E i \in 1..Len(str) : str[i] = c
    THEN (CHOOSE i \in 1..Len(str) : str[i] = c /\ \A j \in 1..(i - 1) : str[j] # c) - 1
    ELSE NPOS

\* std::string::find_first_not_of("0123456789", pos).
find_first_not_of_digits(str, pos) ==
    LET hits == {i \in (pos + 1)..Len(str) : DigitVal(str[i], 10) < 0}
    IN  IF hits = {} THEN NPOS
        ELSE (CHOOSE i \in hits : \A j \in hits : i <= j) - 1

\* The value of the longest run of digits of the base at the front of str.
RECURSIVE DigitRun(_, _, _)
DigitRun(str, base, acc) ==
    IF str = <<>> \/ DigitVal(Head(str), base) < 0
    THEN acc
    ELSE DigitRun(Tail(str), base, acc * base + DigitVal(Head(str), base))

RECURSIVE SkipSpace(_)
SkipSpace(str) ==
    IF str # <<>> /\ Head(str) = " " THEN SkipSpace(Tail(str)) ELSE str

\* A conversion that yields 0 unless every character is a digit of the base.
strtol_Strict(str, base) ==
    IF \A i \in 1..Len(str) : DigitVal(str[i], base) >= 0
    THEN DigitRun(str, base, 0)
    ELSE 0

\* strtol(str, nullptr, base) and atoi(str) (base 10): leading white space,
\* an optional sign, for base 16 an optional 0x prefix, then digits.
strtol(str, base) ==
    LET s1   == SkipSpace(str)
        neg  == s1 # <<>> /\ Head(s1) = "-"
        s2   == IF s1 # <<>> /\ Head(s1) \in {"-", "+"} THEN Tail(s1) ELSE s1
        pref == /\ base = 16
                /\ Len(s2) >= 3
                /\ s2[1] = "0"
                /\ s2[2] \in {"x", "X"}
                /\ DigitVal(s2[3], 16) >= 0
        s3   == IF pref THEN Tail(Tail(s2)) ELSE s2
        v    == DigitRun(s3, base, 0)
    IN  IF neg THEN 0 - v ELSE v

atoi(str) == strtol(str, 10)

\* Conversion of an int to uint32_t.
IntToU32(v) ==
    IF v >= 0
    THEN U32(v)
    ELSE LET m  == 0 - v
             lo == (Limb - (m % Limb)) % Limb
             hi == (Limb - 1 - (m \div Limb) + (IF m % Limb = 0 THEN 1 ELSE 0)) % Limb
         IN  <<lo, hi>>

\* static_cast<uint8_t> of a long.
CastU8(v) == v % 256

\* ------------------------------------------------------------------------
\* SystemInfoParserV1 (GPU and driver nodes)
\* ------------------------------------------------------------------------

\* The loop over the rows of ProcessCuMaskNode, from the matrix built so far.
RECURSIVE CuMaskRows(_, _)
CuMaskRows(cu_mask, rows) ==
    IF rows = <<>>
    THEN cu_mask
    ELSE LET shader_array_list == Head(rows)
         IN  IF shader_array_list.type # "array"
             THEN <<>>
             ELSE IF \E i \in 1..Len(shader_array_list.val) :
                        shader_array_list.val[i].type # "number_unsigned"
                  THEN <<>>
                  ELSE CuMaskRows(
                          Append(cu_mask,
                                 [i \in 1..Len(shader_array_list.val) |->
                                     CastU32(shader_array_list.val[i].val)]),
                          Tail(rows))

\* The rows that are arrays of unsigned numbers kept, the others skipped.
ProcessCuMaskNode_KeepsValidRows(cu_mask_root, asicInfo) ==
    IF cu_mask_root.type # "array"
    THEN Ok(asicInfo)
    ELSE LET valid == SelectSeq(cu_mask_root.val,
                                LAMBDA row: /\ row.type = "array"
                                            /\ \A j \in 1..Len(row.val) :
                                                  row.val[j].type = "number_unsigned")
         IN  Ok([asicInfo EXCEPT !.cu_mask =
                    @ \o [i \in 1..Len(valid) |->
                            [j \in 1..Len(valid[i].val) |-> CastU32(valid[i].val[j].val)]]])

ProcessCuMaskNode(cu_mask_root, asicInfo) ==
    IF cu_mask_root.type # "array"
    THEN Ok(asicInfo)
    ELSE Ok([asicInfo EXCEPT !.cu_mask = CuMaskRows(asicInfo.cu_mask, cu_mask_root.val)])

ProcessClockInfoNode(clock_hz_root, clock_info) ==
    GetFields(clock_info, clock_hz_root,
              << Step("min", "min", "uint64", U64(0)),
                 Step("max", "max", "uint64", U64(0)) >>)

\* Size of IdInfo::luid.
LuidSize == 8

\* The loop with the slices of one character left out.
LuidBytes_Pairs(luid_str) ==
    [k \in 1..LuidSize |->
        IF 2 * k <= Len(luid_str)
        THEN CastU8(strtol(Substr(luid_str, 2 * (k - 1), 2), 16))
        ELSE 0]

\* The bytes from &luid[0] on after memset and the loop over the slices of
\* luid_str: the 8 bytes of the array and, when the string has more than
\* 8 slices, the bytes the loop stores behind the array.
LuidBytes(luid_str) ==
    [k \in 1..(IF (Len(luid_str) + 1) \div 2 > LuidSize
               THEN (Len(luid_str) + 1) \div 2
               ELSE LuidSize) |->
        IF 2 * (k - 1) < Len(luid_str)
        THEN CastU8(strtol(Substr(luid_str, 2 * (k - 1), 2), 16))
        ELSE 0]

ProcessAsicIdInfoNode(asic_id_info_root, asic_id_info) ==
    LET r1 == GetFields(asic_id_info, asic_id_info_root,
                        << Step("gfx_engine", "gfxEngine", "uint32", U32(0)),
                           Step("family", "family", "uint32", U32(0)),
                           Step("e_rev", "eRev", "uint32", U32(0)),
                           Step("revision", "revision", "uint32", U32(0)),
                           Step("device", "device", "uint32", U32(0)),
                           Step("subsystem", "subsystem", "uint32", U32(0)),
                           Step("vendor", "vendor", "uint32", U32(0)) >>)
        luid_str == Get(asic_id_info_root, "luid", "string", <<>>)
    IN  Optional(r1, TRUE,
                 IF GetThrows(asic_id_info_root, "luid", "string")
                 THEN Threw(r1.out)
                 ELSE Ok([r1.out EXCEPT !.luid = LuidBytes(luid_str)]))

ProcessGpuAsicNode(asic_root, asic_info) ==
    LET r1 == GetFields(asic_info, asic_root,
                        << Step("gpu_index", "gpuIndex", "uint32", <<Limb - 1, Limb - 1>>),
                           Step("gpu_counter_freq", "gpuCounterFreq", "uint32to64", U64(0)),
                           Step("num_shader_engines", "numShaderEngines", "uint32", U32(0)),
                           Step("num_shader_arrays_per_engine", "numShaderArraysPerEngine",
                                "uint32", U32(0)),
                           Step("num_cus", "numCus", "uint32", U32(0)) >>)
        r2 == Optional(r1, DoesNodeExist(asic_root, "cuMask"),
                       ProcessCuMaskNode(asic_root.val["cuMask"], r1.out))
        r3 == Section(r2, DoesNodeExist(asic_root, "engineClockHz"), "engine_clock_hz",
                      ProcessClockInfoNode(asic_root.val["engineClockHz"], r2.out.engine_clock_hz))
    IN  Section(r3, DoesNodeExist(asic_root, "ids"), "id_info",
                ProcessAsicIdInfoNode(asic_root.val["ids"], r3.out.id_info))

\* One iteration of the loop of ProcessGpuMemoryHeapsNode; key() throws
\* invalid_iterator unless the iterator walks an object.
ProcessHeapNode(e) ==
    IF ~e.keyed
    THEN Threw(HeapInfo0)
    ELSE GetFields([HeapInfo0 EXCEPT !.heap_type = KeyChars(e.key)], e.node,
                   << Step("phys_addr", "physicalAddress", "uint64", U64(0)),
                      Step("size", "size", "uint64", U64(0)) >>)

ProcessGpuMemoryHeapsNode(heaps_root, heaps) ==
    LET es == Elements(heaps_root)
    IN  AppendEach(heaps, [i \in 1..Len(es) |-> ProcessHeapNode(es[i])])

\* One iteration of the loop of ProcessExcludedVaRanges.
ProcessExcludedRangeNode(excluded_range_root) ==
    GetFields(ExcludedRangeInfo0, excluded_range_root,
              << Step("base", "base", "uint64", U64(0)),
                 Step("size", "size", "uint64", U64(0)) >>)

ProcessExcludedVaRanges(excluded_ranges_root, excluded_ranges) ==
    LET es == Elements(excluded_ranges_root)
    IN  AppendEach(excluded_ranges,
                   [i \in 1..Len(es) |-> ProcessExcludedRangeNode(es[i].node)])

ProcessGpuMemoryNode(memory_root, memory_info) ==
    LET r1 == GetFields(memory_info, memory_root,
                        << Step("type", "type", "string", <<>>),
                           Step("mem_ops_per_clock", "memOpsPerClock", "uint32", U32(0)),
                           Step("bus_bit_width", "busBitWidth", "uint32", U32(0)),
                           Step("bandwidth", "bandwidthBytesPerSec", "uint64", U64(0)) >>)
        r2 == Section(r1, DoesNodeExist(memory_root, "memClockHz"), "mem_clock_hz",
                      ProcessClockInfoNode(memory_root.val["memClockHz"], r1.out.mem_clock_hz))
        r3 == Section(r2, DoesNodeExist(memory_root, "heaps"), "heaps",
                      ProcessGpuMemoryHeapsNode(memory_root.val["heaps"], r2.out.heaps))
    IN  Section(r3, DoesNodeExist(memory_root, "excludedVaRanges"), "excluded_va_ranges",
                ProcessExcludedVaRanges(memory_root.val["excludedVaRanges"], r3.out.excluded_va_ranges))

ProcessSoftwareVersionNode(sw_version_root, version) ==
    GetFields(version, sw_version_root,
              << Step("major", "major", "uint32", U32(0)),
                 Step("minor", "minor", "uint32", U32(0)),
                 Step("misc", "misc", "uint32", U32(0)) >>)

\* One iteration of the loop of ProcessGpusNodes: the local gpu.
ProcessGpuNode(gpu_node) ==
    LET r1 == GetFields(GpuInfo0, gpu_node, <<Step("name", "name", "string", <<>>)>>)
        r2 == Section(r1, DoesNodeExist(gpu_node, "pci"), "pci",
                      ProcessGpuPciNode(gpu_node.val["pci"], r1.out.pci))
        r3 == Section(r2, DoesNodeExist(gpu_node, "asic"), "asic",
                      ProcessGpuAsicNode(gpu_node.val["asic"], r2.out.asic))
        r4 == Section(r3, DoesNodeExist(gpu_node, "memory"), "memory",
                      ProcessGpuMemoryNode(gpu_node.val["memory"], r3.out.memory))
    IN  Section(r4, DoesNodeExist(gpu_node, "bigSw"), "big_sw",
                ProcessSoftwareVersionNode(gpu_node.val["bigSw"], r4.out.big_sw))

\* The gpu list replaced by the entries of this document.
ProcessGpusNodes_Replaces(gpus_root, gpus) ==
    LET es == Elements(gpus_root)
    IN  AppendEach(<<>>, [i \in 1..Len(es) |-> ProcessGpuNode(es[i].node)])

ProcessGpusNodes(gpus_root, gpus) ==
    LET es == Elements(gpus_root)
    IN  AppendEach(gpus, [i \in 1..Len(es) |-> ProcessGpuNode(es[i].node)])

\* The "Parse major and minor" part of ProcessDriverNode.
ParsePackagingVersion(driver) ==
    LET pv    == driver.packaging_version
        first == find_first_of(pv, ".")
        rest  == first + 1
        next  == find_first_not_of_digits(pv, rest)
        d1    == [driver EXCEPT !.packaging_version_major = IntToU32(atoi(Substr(pv, 0, first)))]
    IN  IF pv = <<>> THEN driver
        ELSE IF first = NPOS THEN driver
        ELSE IF next = NPOS THEN d1
        ELSE [d1 EXCEPT !.packaging_version_minor =
                 IntToU32(atoi(Substr(pv, rest, next - rest)))]

ProcessDriverNode(driver_node, driver) ==
    LET r1 == GetFields(driver, driver_node,
                        << Step("name", "name", "string", <<>>),
                           Step("description", "description", "string", <<>>),
                           Step("software_version", "softwareVersion", "string", <<>>),
                           Step("packaging_version", "packagingVersion", "string", <<>>),
                           Step("is_closed_source", "isClosedSource", "bool", FALSE) >>)
    IN  Optional(r1, TRUE, Ok(ParsePackagingVersion(r1.out)))

\* V1 emptying the cpu list when the document has no "cpus" member.
ProcessSystemValueNodeV1_ResetsCpus(system_value_node, system_info) ==
    LET r0 == Ok(system_info)
        r1 == Section(r0, DoesNodeExist(system_value_node, "devdriver"), "devdriver",
                      ProcessDevDriverNode(system_value_node.val["devdriver"], r0.out.devdriver))
        r2 == Section(r1, DoesNodeExist(system_value_node, "driver"), "driver",
                      ProcessDriverNode(system_value_node.val["driver"], r1.out.driver))
        r3 == Section(r2, DoesNodeExist(system_value_node, "os"), "os",
                      ProcessOsNode(system_value_node.val["os"], r2.out.os))
        r4 == Section(r3, TRUE, "cpus",
                      IF DoesNodeExist(system_value_node, "cpus")
                      THEN ProcessCpusNode(system_value_node.val["cpus"], r3.out.cpus)
                      ELSE Ok(<<>>))
    IN  Section(r4, DoesNodeExist(system_value_node, "gpus"), "gpus",
                ProcessGpusNodes(system_value_node.val["gpus"], r4.out.gpus))

\* V1: the five sections in source order.
ProcessSystemValueNodeV1(system_value_node, system_info) ==
    LET r0 == Ok(system_info)
        r1 == Section(r0, DoesNodeExist(system_value_node, "devdriver"), "devdriver",
                      ProcessDevDriverNode(system_value_node.val["devdriver"], r0.out.devdriver))
        r2 == Section(r1, DoesNodeExist(system_value_node, "driver"), "driver",
                      ProcessDriverNode(system_value_node.val["driver"], r1.out.driver))
        r3 == Section(r2, DoesNodeExist(system_value_node, "os"), "os",
                      ProcessOsNode(system_value_node.val["os"], r2.out.os))
        r4 == Section(r3, DoesNodeExist(system_value_node, "cpus"), "cpus",
                      ProcessCpusNode(system_value_node.val["cpus"], r3.out.cpus))
    IN  Section(r4, DoesNodeExist(system_value_node, "gpus"), "gpus",
                ProcessGpusNodes(system_value_node.val["gpus"], r4.out.gpus))

\* ------------------------------------------------------------------------
\* SystemInfoParserV2
\* ------------------------------------------------------------------------

\* One iteration of the loop of ProcessProcessListNode: the local p.
ProcessProcessNode(process_node) ==
    GetFields(Process0, process_node,
              << Step("name", "name", "string", <<>>),
                 Step("path", "path", "string", <<>>),
                 Step("id", "processId", "uint32", U32(0)) >>)

ProcessProcessListNode(process_list_node, processes) ==
    LET es == Elements(process_list_node)
    IN  AppendEach(processes, [i \in 1..Len(es) |-> ProcessProcessNode(es[i].node)])

\* V2 decoding the process list before the V1 sections.
ProcessSystemValueNodeV2_ProcessesFirst(system_value_node, system_info) ==
    LET r0 == Section(Ok(system_info), DoesNodeExist(system_value_node, "processes"),
                      "processes",
                      ProcessProcessListNode(system_value_node.val["processes"],
                                             system_info.processes))
    IN  Optional(r0, TRUE, ProcessSystemValueNodeV1(system_value_node, r0.out))

\* V2 emptying the process list when the document has no "processes" member.
ProcessSystemValueNodeV2_ClearsProcesses(system_value_node, system_info) ==
    LET r1 == ProcessSystemValueNodeV1(system_value_node, system_info)
    IN  IF DoesNodeExist(system_value_node, "processes")
        THEN Section(r1, TRUE, "processes",
                     ProcessProcessListNode(system_value_node.val["processes"],
                                            r1.out.processes))
        ELSE Optional(r1, TRUE, Ok([r1.out EXCEPT !.processes = <<>>]))

ProcessSystemValueNodeV2(system_value_node, system_info) ==
    LET r1 == ProcessSystemValueNodeV1(system_value_node, system_info)
    IN  Section(r1, DoesNodeExist(system_value_node, "processes"), "processes",
                ProcessProcessListNode(system_value_node.val["processes"], r1.out.processes))

\* ------------------------------------------------------------------------
\* Parser selection and the document decoder
\* ------------------------------------------------------------------------

\* assert() is compiled out.
NDEBUG == TRUE

\* CreateSystemInfoParser with the default case falling back to the V1 parser
\* for version 3.
CreateSystemInfoParser_Default3(version_number) ==
    CASE version_number = U32(1) -> "V1"
      [] version_number = U32(2) -> "V2"
      [] version_number = U32(3) -> "V1"
      [] OTHER -> "nullptr"

\* CreateSystemInfoParser treating version 0 as version 1.
CreateSystemInfoParser_ZeroIsV1(version_number) ==
    CASE version_number = U32(0) -> "V1"
      [] version_number = U32(1) -> "V1"
      [] version_number = U32(2) -> "V2"
      [] OTHER -> "nullptr"

CreateSystemInfoParser(version_number) ==
    CASE version_number = U32(1) -> "V1"
      [] version_number = U32(2) -> "V2"
      [] OTHER -> "nullptr"

\* Dispatch in which every parser decodes the process list.
Dispatch_AlwaysV2(parser, system_node, system_info) ==
    ProcessSystemValueNodeV2(system_node, system_info)

\* parser->ProcessSystemValueNode(...): virtual dispatch on the parser.
Dispatch(parser, system_node, system_info) ==
    IF parser = "V2"
    THEN ProcessSystemValueNodeV2(system_node, system_info)
    ELSE ProcessSystemValueNodeV1(system_node, system_info)

\* ResolveVersion using the scalar path's default major in the object path.
ResolveVersion_DefaultMajor1(system_node, version) ==
    IF DoesNodeExist(system_node, "version") /\ is_object(system_node.val["version"])
    THEN GetFields(version, system_node.val["version"],
                   << Step("major", "major", "uint32", U32(1)),
                      Step("minor", "minor", "uint32", U32(0)),
                      Step("patch", "patch", "uint32", U32(0)),
                      Step("build", "build", "uint32", U32(0)) >>)
    ELSE GetFields(version, system_node, <<Step("major", "version", "uint32", U32(1))>>)

\* ResolveVersion setting minor, patch and build to 0 on the scalar path.
ResolveVersion_ZeroesRest(system_node, version) ==
    IF DoesNodeExist(system_node, "version") /\ is_object(system_node.val["version"])
    THEN GetFields(version, system_node.val["version"],
                   << Step("major", "major", "uint32", U32(2)),
                      Step("minor", "minor", "uint32", U32(0)),
                      Step("patch", "patch", "uint32", U32(0)),
                      Step("build", "build", "uint32", U32(0)) >>)
    ELSE GetFields([version EXCEPT !.minor = U32(0), !.patch = U32(0), !.build = U32(0)],
                   system_node, <<Step("major", "version", "uint32", U32(1))>>)

\* The version read with a "version" member required.
ResolveVersion_RequiresVersion(system_node, version) ==
    IF DoesNodeExist(system_node, "version") /\ is_object(system_node.val["version"])
    THEN GetFields(version, system_node.val["version"],
                   << Step("major", "major", "uint32", U32(2)),
                      Step("minor", "minor", "uint32", U32(0)),
                      Step("patch", "patch", "uint32", U32(0)),
                      Step("build", "build", "uint32", U32(0)) >>)
    ELSE IF DoesNodeExist(system_node, "version")
    THEN GetFields(version, system_node, <<Step("major", "version", "uint32", U32(1))>>)
    ELSE Threw(version)

\* The version part of ProcessSystemNode, written into system_info.version.
ResolveVersion(system_node, version) ==
    IF DoesNodeExist(system_node, "version") /\ is_object(system_node.val["version"])
    THEN GetFields(version, system_node.val["version"],
                   << Step("major", "major", "uint32", U32(2)),
                      Step("minor", "minor", "uint32", U32(0)),
                      Step("patch", "patch", "uint32", U32(0)),
                      Step("build", "build", "uint32", U32(0)) >>)
    ELSE GetFields(version, system_node, <<Step("major", "version", "uint32", U32(1))>>)

\* ProcessSystemNode running the V1 parser before it finds that no parser
\* was created.
ProcessSystemNode_ParseFirst(system_node, system_info) ==
    LET rv     == ResolveVersion(system_node, system_info.version)
        info1  == [system_info EXCEPT !.version = rv.out]
        parser == CreateSystemInfoParser(info1.version.major)
    IN  IF rv.threw
        THEN [threw |-> TRUE, aborted |-> FALSE, ret |-> FALSE, parser |-> "unset", out |-> info1]
        ELSE Dispatch(parser, system_node, info1)
                @@ [aborted |-> FALSE, ret |-> parser # "nullptr", parser |-> parser]

\* ProcessSystemNode: ret is the value returned when nothing is thrown;
\* parser is "unset" when the version part threw; aborted when assert fails.
\* The outcome of the parser ([threw, out]) is extended with the other fields.
ProcessSystemNode(system_node, system_info) ==
    LET rv     == ResolveVersion(system_node, system_info.version)
        info1  == [system_info EXCEPT !.version = rv.out]
        parser == CreateSystemInfoParser(info1.version.major)
    IN  IF rv.threw
        THEN [threw |-> TRUE, aborted |-> FALSE, ret |-> FALSE, parser |-> "unset", out |-> info1]
        ELSE IF parser = "nullptr"
        THEN [threw |-> FALSE, aborted |-> ~NDEBUG, ret |-> FALSE, parser |-> parser, out |-> info1]
        ELSE Dispatch(parser, system_node, info1)
                @@ [aborted |-> FALSE, ret |-> TRUE, parser |-> parser]

\* nlohmann::json::parse(text) throws parse_error unless the text is a
\* well-formed document.
ParseThrows(text) == ~text.wellformed

\* A catch block that leaves result as the try block initialised it.
TryCatch_KeepsResult(r) ==
    [result |-> IF r.threw THEN TRUE ELSE r.ret, caught |-> r.threw,
     aborted |-> r.aborted, parser |-> r.parser, out |-> r.out]

\* SYSTEM_INFO_TRY { result = r.ret } SYSTEM_INFO_CATCH(...) { result = false },
\* r being the outcome of the try block.
TryCatch(r) ==
    [result |-> IF r.threw THEN FALSE ELSE r.ret, caught |-> r.threw,
     aborted |-> r.aborted, parser |-> r.parser, out |-> r.out]

\* Parse that gives the caller's record back as it was when an exception is
\* caught.
Parse_Rollback(text, system_info) ==
    LET r == IF ParseThrows(text)
             THEN [threw |-> TRUE, aborted |-> FALSE, ret |-> FALSE, parser |-> "unset",
                   out |-> system_info]
             ELSE IF DoesNodeExist(parse(text), "system")
             THEN ProcessSystemNode(parse(text).val["system"], system_info)
             ELSE ProcessSystemNode(parse(text), system_info)
    IN  TryCatch([r EXCEPT !.out = IF r.threw THEN system_info ELSE r.out])

\* Parse that never descends into the "system" member.
Parse_NoDescend(text, system_info) ==
    TryCatch(IF ParseThrows(text)
             THEN [threw |-> TRUE, aborted |-> FALSE, ret |-> FALSE, parser |-> "unset",
                   out |-> system_info]
             ELSE ProcessSystemNode(parse(text), system_info))

\* SystemInfoReader::Parse(const std::string&, SystemInfo&).
Parse(text, system_info) ==
    TryCatch(IF ParseThrows(text)
             THEN [threw |-> TRUE, aborted |-> FALSE, ret |-> FALSE, parser |-> "unset",
                   out |-> system_info]
             ELSE IF DoesNodeExist(parse(text), "system")
             THEN ProcessSystemNode(parse(text).val["system"], system_info)
             ELSE ProcessSystemNode(parse(text), system_info))

\* The text "".
EmptyString == [wellformed |-> FALSE, spaced |-> FALSE, src |-> JString(<<>>)]

\* The string Parse returning the compact text of the whole document.
ParseToString_DumpsDocument(text) ==
    IF ParseThrows(text)
    THEN EmptyString
    ELSE IF DoesNodeExist(parse(text), "system")
    THEN dump(parse(text).val["system"])
    ELSE dump(parse(text))

\* The string Parse returning "" for a document without "system".
ParseToString_EmptyWithoutSystem(text) ==
    IF ParseThrows(text)
    THEN EmptyString
    ELSE IF DoesNodeExist(parse(text), "system")
    THEN dump(parse(text).val["system"])
    ELSE EmptyString

\* SystemInfoReader::Parse(const std::string&) returning std::string.
ParseToString(text) ==
    IF ParseThrows(text)
    THEN EmptyString
    ELSE IF DoesNodeExist(parse(text), "system")
    THEN dump(parse(text).val["system"])
    ELSE text

\* ------------------------------------------------------------------------
\* Documents the callers pass
\* ------------------------------------------------------------------------
GoodCpu ==
    JObject([name |-> JString(<<"c", "0">>), architecture |-> JString(<<"x", "6", "4">>),
             numLogicalCores |-> JUnsigned(16), numPhysicalCores |-> JUnsigned(8),
             virtualization |-> JString(<<"o", "n">>),
             speed |-> JObject([max |-> JUnsigned(3700)]),
             cpuTimeClockFreq |-> JUnsigned(100)])

BadCpu ==
    JObject([name |-> JString(<<"c", "1">>), numPhysicalCores |-> JString(<<"8">>)])

GoodProcess ==
    JObject([name |-> JString(<<"p">>), path |-> JString(<<"/", "p">>),
             processId |-> JUnsigned(7)])

BadProcess ==
    JObject([name |-> JString(<<"q">>), processId |-> JString(<<"7">>)])

GoodGpu ==
    JObject([name |-> JString(<<"g">>),
             pci |-> JObject([bus |-> JUnsigned(1), device |-> JUnsigned(2),
                              function |-> JUnsigned(3)]),
             asic |-> JObject([gpuCounterFreq |-> JUnsigned(100),
                               numShaderEngines |-> JUnsigned(2),
                               cuMask |-> JArray(<<JArray(<<JUnsigned(1), JUnsigned(2)>>),
                                                   JArray(<<JUnsigned(3)>>)>>),
                               engineClockHz |-> JObject([min |-> JUnsigned(5),
                                                          max |-> JUnsigned(9)]),
                               ids |-> JObject([family |-> JUnsigned(143),
                                                luid |-> JString(<<"0", "1", "f", "F">>)])]),
             memory |-> JObject([type |-> JString(<<"d">>),
                                 heaps |-> JObject([local |-> JObject([size |-> JUnsigned(64)]),
                                                    invisible |-> JObject([physicalAddress |-> JUnsigned(8)])]),
                                 excludedVaRanges |-> JArray(<<JObject([base |-> JUnsigned(1),
                                                                        size |-> JUnsigned(2)])>>)]),
             bigSw |-> JObject([major |-> JUnsigned(23), minor |-> JUnsigned(4)])])

GoodDevDriver ==
    JObject([tag |-> JString(<<"t">>), version |-> JObject([major |-> JUnsigned(42)])])

GoodDriver ==
    JObject([name |-> JString(<<"d">>),
             packagingVersion |-> JString(<<"2", "3", ".", "4", "0", ".", "1">>),
             isClosedSource |-> JBool(TRUE)])

BadDriver ==
    JObject([name |-> JString(<<"d">>), description |-> JUnsigned(5),
             packagingVersion |-> JString(<<"1", ".", "2", ".", "3">>)])

GoodOs ==
    JObject([name |-> JString(<<"o">>), hostname |-> JString(<<"h">>),
             memory |-> JObject([physical |-> JUnsigned(16), name |-> JString(<<"D", "4">>)]),
             config |-> JObject([linux |-> JObject([powerDpmWritable |-> JBool(TRUE),
                                                    drm |-> JObject([major |-> JUnsigned(3),
                                                                     minor |-> JUnsigned(1)])]),
                                 windows |-> JObject([etwSupport |->
                                     JObject([isSupported |-> JBool(TRUE),
                                              statusCode |-> JUnsigned(5)])])])])

\* Members of the system subtree other than "version".
BodyEmpty == <<>>

BodyNoProcesses ==
    [devdriver |-> GoodDevDriver, driver |-> GoodDriver, os |-> GoodOs,
     cpus |-> JArray(<<GoodCpu>>), gpus |-> JArray(<<GoodGpu>>)]

BodyFull == BodyNoProcesses @@ [processes |-> JArray(<<GoodProcess>>)]

BodyBadDriver ==
    [devdriver |-> GoodDevDriver, driver |-> BadDriver, cpus |-> JArray(<<GoodCpu>>),
     processes |-> JArray(<<GoodProcess>>)]

BodyBadCpu ==
    [driver |-> GoodDriver, cpus |-> JArray(<<GoodCpu, BadCpu>>),
     processes |-> JArray(<<GoodProcess>>)]

BodyBadProcess ==
    [cpus |-> JArray(<<GoodCpu>>), processes |-> JArray(<<GoodProcess, BadProcess>>)]

\* A gpu whose asic states its index, and a gpu without an asic subtree.
IndexedGpu ==
    JObject([name |-> JString(<<"i">>),
             asic |-> JObject([gpuIndex |-> JUnsigned(1), numCus |-> JUnsigned(4)])])

BareGpu == JObject([name |-> JString(<<"b">>)])

BodyGpus == [gpus |-> JArray(<<IndexedGpu, BareGpu, GoodGpu>>)]

\* Sections present with their nested subtrees missing.
BodySparse ==
    [devdriver |-> JObject([tag |-> JString(<<"s">>)]),
     driver |-> JObject([name |-> JString(<<"e">>)]),
     os |-> JObject([name |-> JString(<<"p">>),
                     config |-> JObject([linux |-> JObject([powerDpmWritable |-> JBool(FALSE)]),
                                         windows |-> JEmptyObject])])]

Bodies ==
    <<BodyEmpty, BodyNoProcesses, BodyFull, BodyBadDriver, BodyBadCpu, BodyBadProcess,
      BodySparse, BodyGpus>>

\* Values of the "version" member.
ScalarVersions ==
    { JUnsigned(0), JUnsigned(1), JUnsigned(2), JUnsigned(3), JUnsigned(99),
      JWide(<<1, 0, 1, 0>>), JNegative(1), JString(<<"2">>) }

ObjectVersions ==
    { JEmptyObject,
      JObject([major |-> JUnsigned(1), minor |-> JUnsigned(3), patch |-> JUnsigned(4),
               build |-> JUnsigned(5)]),
      JObject([major |-> JUnsigned(2), minor |-> JUnsigned(3), patch |-> JUnsigned(4),
               build |-> JUnsigned(5)]),
      JObject([major |-> JUnsigned(99), minor |-> JUnsigned(3)]),
      JObject([major |-> JUnsigned(0)]),
      JObject([minor |-> JUnsigned(7)]),
      JObject([major |-> JUnsigned(2), minor |-> JString(<<"x">>), patch |-> JUnsigned(4)]),
      JObject([major |-> JString(<<"x">>)]) }

\* A system subtree: the body, with a version member unless versioned = FALSE.
Subtree(versioned, version, body) ==
    JObject(IF versioned THEN [version |-> version] @@ body ELSE body)

\* Every version form over the empty body; every body under the versions
\* that select a parser (absent, 1, 2, object form) and one that does not.
BareDocs ==
    {Subtree(FALSE, JNull, BodyEmpty)}
    \cup {Subtree(TRUE, v, BodyEmpty) : v \in ScalarVersions \cup ObjectVersions}
    \cup {Subtree(FALSE, JNull, Bodies[b]) : b \in 2..Len(Bodies)}
    \cup {Subtree(TRUE, v, Bodies[b]) :
            v \in {JUnsigned(1), JUnsigned(2), JUnsigned(99),
                   JObject([major |-> JUnsigned(2), minor |-> JUnsigned(3),
                            patch |-> JUnsigned(4), build |-> JUnsigned(5)])},
            b \in 2..Len(Bodies)}

\* The envelope around a system subtree, alone or with sibling members.
Envelope(S) == JObject([system |-> S])

EnvelopeWithSiblings(S) ==
    JObject([system |-> S, version |-> JUnsigned(99), cpus |-> JArray(<<GoodCpu, GoodCpu>>),
             processes |-> JArray(<<GoodProcess>>)])

EnvelopedSubtrees ==
    { Subtree(FALSE, JNull, BodyEmpty), Subtree(TRUE, JUnsigned(2), BodyEmpty),
      Subtree(TRUE, JUnsigned(99), BodyEmpty), Subtree(TRUE, JString(<<"2">>), BodyEmpty),
      Subtree(TRUE, JUnsigned(2), BodyFull), Subtree(FALSE, JNull, BodyNoProcesses),
      Subtree(TRUE, JUnsigned(2), BodyBadDriver),
      JUnsigned(7), JArray(<<Subtree(TRUE, JUnsigned(99), BodyEmpty)>>) }

\* Documents whose top level is not an object.
OtherDocs == { JArray(<<Subtree(TRUE, JUnsigned(99), BodyFull)>>), JUnsigned(5), JNull }

Docs ==
    BareDocs \cup OtherDocs
    \cup {Envelope(S) : S \in EnvelopedSubtrees}
    \cup {EnvelopeWithSiblings(S) : S \in EnvelopedSubtrees}

\* The compact text of a document.
Text(doc) == dump(doc)

\* Texts that are not the compact text of their document: members out of
\* map order, white space, a member written twice, an envelope with a
\* sibling.  The heaps of WrittenGpu are written "local" first.
WrittenGpu ==
    SrcObject(<< Member("name", JString(<<"w">>)),
                 Member("memory",
                        SrcObject(<<Member("heaps",
                            SrcObject(<< Member("local", SrcObject(<<Member("size", JUnsigned(64))>>)),
                                         Member("invisible",
                                                SrcObject(<<Member("size", JUnsigned(8))>>)) >>))>>)) >>)

WrittenBare ==
    [wellformed |-> TRUE, spaced |-> TRUE,
     src |-> SrcObject(<< Member("version", JUnsigned(2)),
                          Member("gpus", JArray(<<WrittenGpu>>)),
                          Member("cpus", JArray(<<DumpValue(GoodCpu)>>)) >>)]

WrittenTwice ==
    [wellformed |-> TRUE, spaced |-> FALSE,
     src |-> SrcObject(<< Member("version", JUnsigned(99)),
                          Member("version", JUnsigned(1)),
                          Member("processes", JArray(<<DumpValue(GoodProcess)>>)) >>)]

WrittenEnvelope ==
    [wellformed |-> TRUE, spaced |-> TRUE,
     src |-> SrcObject(<< Member("system",
                                 SrcObject(<< Member("version", JUnsigned(2)),
                                              Member("processes",
                                                     JArray(<<DumpValue(GoodProcess)>>)),
                                              Member("gpus", JArray(<<WrittenGpu>>)) >>)),
                          Member("extra", JUnsigned(1)) >>)]

\* A version-2 document with two or more elements in each collection;
\* the second gpu has a cuMask row holding a string.
WrittenLists ==
    [wellformed |-> TRUE, spaced |-> FALSE,
     src |-> SrcObject(<<
        Member("version", JUnsigned(2)),
        Member("cpus", JArray(<< SrcObject(<<Member("name", JString(<<"c", "1">>))>>),
                                 SrcObject(<<Member("name", JString(<<"c", "0">>))>>) >>)),
        Member("processes", JArray(<< SrcObject(<<Member("name", JString(<<"q">>))>>),
                                      SrcObject(<<Member("name", JString(<<"p">>))>>) >>)),
        Member("gpus", JArray(<<
            SrcObject(<<
                Member("name", JString(<<"w">>)),
                Member("asic", SrcObject(<<
                    Member("cuMask", JArray(<< JArray(<<JUnsigned(1), JUnsigned(2)>>),
                                               JArray(<<JUnsigned(3)>>) >>)) >>)),
                Member("memory", SrcObject(<<
                    Member("heaps", SrcObject(<<
                        Member("local", SrcObject(<<Member("size", JUnsigned(64))>>)),
                        Member("invisible", SrcObject(<<Member("size", JUnsigned(8))>>)) >>)),
                    Member("excludedVaRanges", JArray(<<
                        SrcObject(<<Member("base", JUnsigned(2))>>),
                        SrcObject(<<Member("base", JUnsigned(1))>>) >>)) >>)) >>),
            SrcObject(<<
                Member("name", JString(<<"m">>)),
                Member("asic", SrcObject(<<
                    Member("cuMask", JArray(<< JArray(<<JUnsigned(1)>>),
                                               JArray(<<JString(<<"x">>)>>),
                                               JArray(<<JUnsigned(2)>>) >>)) >>)) >>) >>)) >>)]

\* A gpu as written whose asic ids hold only a luid.
LuidGpu(luid_str) ==
    SrcObject(<<Member("asic",
                       SrcObject(<<Member("ids",
                                          SrcObject(<<Member("luid", JString(luid_str))>>))>>))>>)

\* Luid strings of even length up to 16: hex digits only, and slices with
\* other characters in either place.
EvenLuids ==
    << <<"0", "1", "0", "2", "0", "3", "0", "4", "0", "5", "0", "6", "0", "7", "0", "8">>,
       <<"1", "g">>,
       <<"g", "1">>,
       <<"-", "1">>,
       <<" ", "f">>,
       <<"+", "a">>,
       <<"0", "x">>,
       <<"z", "z", "1", "F">>,
       <<>> >>

\* Luid strings of odd length up to 15: the last character a digit, not a
\* digit, and the only character.
OddLuids ==
    << <<"a", "b", "c">>,
       <<"f">>,
       <<"1", "2", "g">>,
       <<"0", "1", "0", "2", "0", "3", "0", "4", "0", "5", "0", "6", "0", "7", "0">>,
       <<"1", "f", "-">> >>

\* Luid strings of more than 16 characters.
LongLuids ==
    << <<"0", "1", "0", "2", "0", "3", "0", "4", "0", "5", "0", "6", "0", "7", "0", "8", "0", "9">>,
       <<"0", "1", "0", "2", "0", "3", "0", "4", "0", "5", "0", "6", "0", "7", "0", "8", "a">> >>

WrittenLuids ==
    [wellformed |-> TRUE, spaced |-> FALSE,
     src |-> SrcObject(<<Member("gpus", JArray([i \in 1..Len(EvenLuids \o OddLuids) |->
                                                   LuidGpu((EvenLuids \o OddLuids)[i])]))>>)]

WrittenLongLuids ==
    [wellformed |-> TRUE, spaced |-> FALSE,
     src |-> SrcObject(<<Member("gpus", JArray([i \in 1..Len(LongLuids) |->
                                                   LuidGpu(LongLuids[i])]))>>)]

\* Documents whose driver holds only a packagingVersion: two components,
\* a trailing '.', no '.', no digit after the '.', nothing before the '.'.
PackagingVersions ==
    << <<"2", "3", ".", "4", "0">>,
       <<"2", "3", ".">>,
       <<"7">>,
       <<"2", "3", ".", "x">>,
       <<".", "5", ".">> >>

WrittenDriver(pv) ==
    [wellformed |-> TRUE, spaced |-> FALSE,
     src |-> SrcObject(<<Member("driver",
                                SrcObject(<<Member("packagingVersion", JString(pv))>>))>>)]

WrittenDrivers == {WrittenDriver(PackagingVersions[i]) : i \in 1..Len(PackagingVersions)}

\* A gpu as written whose asic holds only a cuMask.
CuMaskGpu(cu_mask) ==
    SrcObject(<<Member("asic", SrcObject(<<Member("cuMask", cu_mask)>>))>>)

\* cuMask nodes: well formed (with an empty row, with no row, with a value
\* above 32 bits), and with a violation in the outer node, in a row, at
\* the front, in the middle and at the end of a row.
CuMasks ==
    << JArray(<<JArray(<<JUnsigned(1), JUnsigned(2)>>), JArray(<<>>),
                JArray(<<JWide(<<3, 0, 1, 0>>)>>)>>),
       JArray(<<>>),
       JUnsigned(5),
       SrcObject(<<Member("a", JArray(<<JUnsigned(1)>>))>>),
       JArray(<<JArray(<<JUnsigned(1)>>), JUnsigned(7), JArray(<<JUnsigned(2)>>)>>),
       JArray(<<JArray(<<JUnsigned(1), JUnsigned(2)>>),
                JArray(<<JUnsigned(3), JString(<<"x">>), JUnsigned(4)>>)>>),
       JArray(<<JArray(<<JNegative(1), JUnsigned(2)>>)>>),
       JArray(<<JArray(<<JUnsigned(1)>>), JArray(<<JUnsigned(2), JBool(TRUE)>>)>>),
       JArray(<<JNull, JArray(<<JUnsigned(1)>>)>>) >>

WrittenCuMasks ==
    [wellformed |-> TRUE, spaced |-> FALSE,
     src |-> SrcObject(<<Member("gpus", JArray([i \in 1..Len(CuMasks) |->
                                                   CuMaskGpu(CuMasks[i])]))>>)]

\* An envelope whose "system" value has a member "system" of its own: the
\* outer subtree is version 1 with a cpu, the inner one version 2 with a
\* process.
WrittenNested ==
    [wellformed |-> TRUE, spaced |-> FALSE,
     src |-> SrcObject(<<
        Member("system", SrcObject(<<
            Member("version", JUnsigned(1)),
            Member("cpus", JArray(<<DumpValue(GoodCpu)>>)),
            Member("system", SrcObject(<<
                Member("version", JUnsigned(2)),
                Member("processes", JArray(<<DumpValue(GoodProcess)>>)) >>)) >>)) >>)]

\* Documents without any member the decoder looks for: an object of other
\* members, a string, an empty array.
WrittenUnknown ==
    [wellformed |-> TRUE, spaced |-> FALSE,
     src |-> SrcObject(<< Member("extra", JUnsigned(1)),
                          Member("b", SrcObject(<<Member("cpus", JArray(<<>>))>>)) >>)]

WrittenScalar == [wellformed |-> TRUE, spaced |-> FALSE, src |-> JString(<<"c", "p", "u", "s">>)]

WrittenEmptyArray == [wellformed |-> TRUE, spaced |-> FALSE, src |-> JArray(<<>>)]

WrittenTexts ==
    {WrittenBare, WrittenTwice, WrittenEnvelope, WrittenLists, WrittenLuids, WrittenLongLuids,
     WrittenCuMasks, WrittenNested, WrittenUnknown, WrittenScalar, WrittenEmptyArray}
    \cup WrittenDrivers

\* Texts that are not JSON documents; src holds their characters.
Malformed == [wellformed |-> FALSE, spaced |-> FALSE, src |-> JString(<<"{">>)]

Texts == {Text(d) : d \in Docs} \cup WrittenTexts \cup {Malformed, EmptyString}

\* ------------------------------------------------------------------------
\* State machine: a caller decoding texts into one record
\* ------------------------------------------------------------------------
MaxCalls == 2

VARIABLES
    system_info,   \* the caller's record
    json,          \* the text of the last call
    pre,           \* the record as it was when the last call was made
    result,        \* the value the last call returned
    caught,        \* the last call caught an exception
    parser,        \* the parser the last call selected
    calls          \* number of calls made

record_vars == <<system_info, json, pre, result, caught, parser, calls>>

\* A caller of the string Parse.
MaxTextCalls == 2

VARIABLES
    text_in,       \* the text of the last call of the string Parse
    text_out,      \* the string it returned
    text_again,    \* what the string Parse returned for text_out, once the caller asked
    text_calls     \* number of calls made

text_vars == <<text_in, text_out, text_again, text_calls>>

\* No string: the caller has not passed text_out back.
NoString == [wellformed |-> FALSE, spaced |-> FALSE, src |-> JNull]


InitRecord ==
    /\ system_info = SystemInfo0
    /\ json = Malformed
    /\ pre = SystemInfo0
    /\ result = FALSE
    /\ caught = FALSE
    /\ parser = "unset"
    /\ calls = 0

InitText ==
    /\ text_in = EmptyString
    /\ text_out = EmptyString
    /\ text_again = NoString
    /\ text_calls = 0


\* A caller of Parse(rdfChunkFile*, SystemInfo&); the container is the
\* caller's, and every call of it returns normally.
MaxChunkCalls == 2

kSystemInfoChunkVersion == 1

kSystemInfoChunkVersionMax == kSystemInfoChunkVersion

VARIABLES
    pc,            \* position in Parse(file, system_info); "idle" outside a call
    file,          \* the container passed to the call
    contains_chunk,  \* int contains
    version,       \* uint32_t version
    chunk_size,    \* int64_t chunk_size
    buffer,        \* char* buffer and the array it points to
    trace,         \* container, buffer and decode operations of the call, in order
    chunk_pre,     \* the record as it was when the call was made
    chunk_result,  \* the value the call returned
    chunk_calls    \* number of calls made

chunk_vars ==
    <<pc, file, contains_chunk, version, chunk_size, buffer, trace, chunk_pre, chunk_result,
      chunk_calls>>

\* Threads that call Parse(file, system_info) at the same time, each on a
\* container and a record of its own; the free store is the one thing
\* they all use.
Threads == 1..2

MaxThreadCalls == 1

Addresses == 1..4

VARIABLES
    threads,   \* per thread: position, arguments, locals and return value of its call
    heap       \* the free store: the block at each address

thread_vars == <<threads, heap>>

vars == <<record_vars, text_vars, chunk_vars, thread_vars>>

\* No array: char* buffer before new[] in this call.
NoBuffer ==
    [state |-> "none", capacity |-> 0, filled |-> FALSE, terminated |-> FALSE,
     data |-> EmptyString]

\* The chunks a container may store under "SystemInfo": the text and its
\* size in bytes.
Chunks ==
    { [text |-> EmptyString, size |-> 0],
      [text |-> Malformed, size |-> 1],
      [text |-> Text(Subtree(TRUE, JUnsigned(99), BodyEmpty)), size |-> 14],
      [text |-> Text(JObject([cpus |-> JArray(<<JObject([name |-> JUnsigned(5)])>>)])),
       size |-> 21],
      [text |-> Text(JObject([cpus |-> JArray(<<JObject([name |-> JString(<<"c", "0">>)])>>)])),
       size |-> 24],
      [text |-> Text(JObject([version |-> JUnsigned(2),
                              processes |-> JArray(<<JObject([name |-> JString(<<"p">>)])>>)])),
       size |-> 40] }

\* Containers: without the chunk, or with a chunk stored under a version.
Files ==
    {[present |-> FALSE, version |-> 0, chunk |-> [text |-> EmptyString, size |-> 0]]}
    \cup {[present |-> TRUE, version |-> v, chunk |-> c] : v \in 0..3, c \in Chunks}

InitChunk ==
    /\ pc = "idle"
    /\ file = [present |-> FALSE, version |-> 0, chunk |-> [text |-> EmptyString, size |-> 0]]
    /\ contains_chunk = 0
    /\ version = 0
    /\ chunk_size = 0
    /\ buffer = NoBuffer
    /\ trace = <<>>
    /\ chunk_pre = SystemInfo0
    /\ chunk_result = FALSE
    /\ chunk_calls = 0

\* A block of the free store that is not in use.
FreeBlock ==
    [state |-> "free", capacity |-> 0, filled |-> FALSE, terminated |-> FALSE,
     data |-> EmptyString, vptr |-> "none"]

\* The containers the threads read: chunk absent, stored under a version
\* too new, and chunks that decode differently under versions 0 and 1.
ThreadFiles ==
    {f \in Files : ~f.present \/ (f.version = 2 /\ f.chunk.size = 24)
                               \/ (f.version = 1 /\ f.chunk.size # 0)
                               \/ (f.version = 0 /\ f.chunk.size = 40)}

InitThreads ==
    /\ threads = [t \in Threads |->
                    [pc |-> "idle",
                     file |-> [present |-> FALSE, version |-> 0,
                               chunk |-> [text |-> EmptyString, size |-> 0]],
                     system_info |-> SystemInfo0, pre |-> SystemInfo0, chunk_size |-> 0,
                     buffer |-> 0, parser |-> 0, system_node |-> JNull, result |-> FALSE,
                     calls |-> 0]]
    /\ heap = [a \in Addresses |-> FreeBlock]

Init == InitRecord /\ InitText /\ InitChunk /\ InitThreads

\* The decode stored bytes behind the luid array of some gpu.
Overran(info) ==
    \E i \in 1..Len(info.gpus) : Len(info.gpus[i].asic.id_info.luid) > LuidSize

\* What a call that computes r can do: return r; when it wrote behind an
\* array, which is undefined, also end the process instead of returning.
Outcomes(r) == IF Overran(r.out) THEN {r, [r EXCEPT !.aborted = TRUE]} ELSE {r}

\* The call returns r: the caller holds the return value and the record.
Returns(r) ==
    /\ ~r.aborted
    /\ system_info' = r.out
    /\ result' = r.result
    /\ caught' = r.caught
    /\ parser' = r.parser

\* bool ok = SystemInfoReader::Parse(text, system_info);
CallParse(text) ==
    /\ calls < MaxCalls
    /\ \E r \in Outcomes(Parse(text, system_info)) : Returns(r)
    /\ json' = text
    /\ pre' = system_info
    /\ calls' = calls + 1
    /\ UNCHANGED <<text_vars, chunk_vars, thread_vars>>

Next == \E text \in Texts : CallParse(text)

\* std::string out = SystemInfoReader::Parse(text);
CallParseToString(text) ==
    /\ text_calls < MaxTextCalls
    /\ text_in' = text
    /\ text_out' = ParseToString(text)
    /\ text_again' = NoString
    /\ text_calls' = text_calls + 1
    /\ UNCHANGED <<record_vars, chunk_vars, thread_vars>>

\* The caller passes a text of its own, or the string the last call returned.
TextNext ==
    \/ \E text \in Texts : CallParseToString(text)
    \/ text_calls > 0 /\ CallParseToString(text_out)

TextSpec == Init /\ [][TextNext]_vars

\* The caller passes the string the last call returned to the string
\* Parse once more and keeps the answer next to it.
CallParseToStringAgain ==
    /\ text_calls > 0
    /\ text_again = NoString
    /\ text_again' = ParseToString(text_out)
    /\ UNCHANGED <<text_in, text_out, text_calls, record_vars, chunk_vars, thread_vars>>

\* Texts passed to the string Parse by a caller that decodes what it
\* returns: enveloped (alone, with siblings, nested, not decodable), bare,
\* not an object, not a document.
StripTexts ==
    { WrittenEnvelope, WrittenNested, WrittenBare, WrittenTwice, Malformed,
      Text(Envelope(Subtree(TRUE, JUnsigned(2), BodyBadDriver))),
      Text(Envelope(Subtree(TRUE, JUnsigned(99), BodyEmpty))),
      Text(EnvelopeWithSiblings(Subtree(FALSE, JNull, BodyNoProcesses))),
      Text(Envelope(JUnsigned(7))),
      Text(JUnsigned(5)) }

\* A caller of the string Parse that decodes the returned string into a
\* record, or passes it to the string Parse again.
StripNext ==
    \/ \E text \in StripTexts : CallParseToString(text)
    \/ CallParseToStringAgain
    \/ text_calls > 0 /\ CallParse(text_out)

StripSpec == Init /\ [][StripNext]_vars

Spec == Init /\ [][Next]_vars

\* bool ok = SystemInfoReader::Parse(file, system_info): entry, with
\* bool result = false and the locals value-initialised.
CallParseFile(f) ==
    /\ pc \in {"idle", "done"}
    /\ chunk_calls < MaxChunkCalls
    /\ pc' = "ContainsChunk"
    /\ file' = f
    /\ contains_chunk' = 0
    /\ version' = 0
    /\ chunk_size' = 0
    /\ buffer' = NoBuffer
    /\ trace' = <<>>
    /\ chunk_pre' = system_info
    /\ chunk_result' = FALSE
    /\ chunk_calls' = chunk_calls + 1
    /\ UNCHANGED <<record_vars, text_vars, thread_vars>>

\* The presence query without the early return.
ContainsChunk_NoGate ==
    /\ pc = "ContainsChunk"
    /\ contains_chunk' = IF file.present THEN 1 ELSE 0
    /\ trace' = Append(trace, "ContainsChunk")
    /\ pc' = "GetChunkVersion"
    /\ UNCHANGED <<file, version, chunk_size, buffer, chunk_pre, chunk_result, chunk_calls>>
    /\ UNCHANGED <<record_vars, text_vars, thread_vars>>

\* rdfChunkFileContainsChunk(...); if (!contains) return result;
ContainsChunk ==
    /\ pc = "ContainsChunk"
    /\ contains_chunk' = IF file.present THEN 1 ELSE 0
    /\ trace' = Append(trace, "ContainsChunk")
    /\ pc' = IF file.present THEN "GetChunkVersion" ELSE "done"
    /\ UNCHANGED <<file, version, chunk_size, buffer, chunk_pre, chunk_result, chunk_calls>>
    /\ UNCHANGED <<record_vars, text_vars, thread_vars>>

\* The version query without the comparison against the maximum.
GetChunkVersion_NoGate ==
    /\ pc = "GetChunkVersion"
    /\ version' = file.version
    /\ trace' = Append(trace, "GetChunkVersion")
    /\ pc' = "GetChunkDataSize"
    /\ UNCHANGED <<file, contains_chunk, chunk_size, buffer, chunk_pre, chunk_result, chunk_calls>>
    /\ UNCHANGED <<record_vars, text_vars, thread_vars>>

\* rdfChunkFileGetChunkVersion(...);
\* if (version > kSystemInfoChunkVersionMax) return result;
GetChunkVersion ==
    /\ pc = "GetChunkVersion"
    /\ version' = file.version
    /\ trace' = Append(trace, "GetChunkVersion")
    /\ pc' = IF file.version > kSystemInfoChunkVersionMax THEN "done" ELSE "GetChunkDataSize"
    /\ UNCHANGED <<file, contains_chunk, chunk_size, buffer, chunk_pre, chunk_result, chunk_calls>>
    /\ UNCHANGED <<record_vars, text_vars, thread_vars>>

\* rdfChunkFileGetChunkDataSize(...);
GetChunkDataSize ==
    /\ pc = "GetChunkDataSize"
    /\ chunk_size' = file.chunk.size
    /\ trace' = Append(trace, "GetChunkDataSize")
    /\ pc' = "new"
    /\ UNCHANGED <<file, contains_chunk, version, buffer, chunk_pre, chunk_result, chunk_calls>>
    /\ UNCHANGED <<record_vars, text_vars, thread_vars>>

\* char* buffer = new char[chunk_size + 1]; the array is not initialised.
NewBuffer ==
    /\ pc = "new"
    /\ buffer' = [state |-> "allocated", capacity |-> chunk_size + 1, filled |-> FALSE,
                  terminated |-> FALSE, data |-> EmptyString]
    /\ trace' = Append(trace, "new")
    /\ pc' = "ReadChunkData"
    /\ UNCHANGED <<file, contains_chunk, version, chunk_size, chunk_pre, chunk_result, chunk_calls>>
    /\ UNCHANGED <<record_vars, text_vars, thread_vars>>

\* rdfChunkFileReadChunkData(..., buffer): the chunk's bytes go to buffer[0..size-1].
ReadChunkData ==
    /\ pc = "ReadChunkData"
    /\ buffer' = [buffer EXCEPT !.filled = TRUE, !.data = file.chunk.text]
    /\ trace' = Append(trace, "ReadChunkData")
    /\ pc' = "terminate"
    /\ UNCHANGED <<file, contains_chunk, version, chunk_size, chunk_pre, chunk_result, chunk_calls>>
    /\ UNCHANGED <<record_vars, text_vars, thread_vars>>

\* The buffer handed to the decoder without the terminating zero.
TerminateBuffer_Skipped ==
    /\ pc = "terminate"
    /\ trace' = Append(trace, "terminate")
    /\ pc' = "Parse"
    /\ UNCHANGED <<file, contains_chunk, version, chunk_size, buffer, chunk_pre, chunk_result,
                   chunk_calls>>
    /\ UNCHANGED <<record_vars, text_vars, thread_vars>>

\* buffer[chunk_size] = 0;
TerminateBuffer ==
    /\ pc = "terminate"
    /\ buffer' = [buffer EXCEPT !.terminated = chunk_size < buffer.capacity]
    /\ trace' = Append(trace, "terminate")
    /\ pc' = "Parse"
    /\ UNCHANGED <<file, contains_chunk, version, chunk_size, chunk_pre, chunk_result, chunk_calls>>
    /\ UNCHANGED <<record_vars, text_vars, thread_vars>>

\* The strings std::string(buffer) can be: the bytes read when a zero ends
\* them inside the array, anything when the array is read past what was
\* written.
CStrings(b) ==
    IF b.state = "allocated" /\ b.filled /\ b.terminated THEN {b.data} ELSE Texts

\* result = Parse(buffer, system_info);
ParseBuffer ==
    /\ pc = "Parse"
    /\ \E text \in CStrings(buffer) :
          /\ \E r \in Outcomes(Parse(text, system_info)) : Returns(r)
          /\ json' = text
    /\ pre' = system_info
    /\ calls' = calls + 1
    /\ chunk_result' = result'
    /\ trace' = Append(trace, "Parse")
    /\ pc' = "delete"
    /\ UNCHANGED <<file, contains_chunk, version, chunk_size, buffer, chunk_pre, chunk_calls>>
    /\ UNCHANGED <<text_vars, thread_vars>>

\* The call returning with the array still allocated.
DeleteBuffer_Skipped ==
    /\ pc = "delete"
    /\ trace' = Append(trace, "delete")
    /\ pc' = "done"
    /\ UNCHANGED <<file, contains_chunk, version, chunk_size, buffer, chunk_pre, chunk_result,
                   chunk_calls>>
    /\ UNCHANGED <<record_vars, text_vars, thread_vars>>

\* delete[] buffer; return result;
DeleteBuffer ==
    /\ pc = "delete"
    /\ buffer' = [buffer EXCEPT !.state = IF @ = "allocated" THEN "released" ELSE "corrupt"]
    /\ trace' = Append(trace, "delete")
    /\ pc' = "done"
    /\ UNCHANGED <<file, contains_chunk, version, chunk_size, chunk_pre, chunk_result, chunk_calls>>
    /\ UNCHANGED <<record_vars, text_vars, thread_vars>>

ChunkNext ==
    \/ \E f \in Files : CallParseFile(f)
    \/ ContainsChunk
    \/ GetChunkVersion
    \/ GetChunkDataSize
    \/ NewBuffer
    \/ ReadChunkData
    \/ TerminateBuffer
    \/ ParseBuffer
    \/ DeleteBuffer

ChunkSpec == Init /\ [][ChunkNext]_vars

\* operator new / make_shared: storage that is not in use, at a fixed
\* address here.
Allocate_Static(h) == {1}

\* operator new / make_shared: storage that is not in use.
Allocate(h) == {a \in Addresses : h[a].state = "free"}

\* Thread t calls Parse(file, system_info) on its container and its record.
ThreadCall(t, f) ==
    /\ threads[t].pc \in {"idle", "done"}
    /\ threads[t].calls < MaxThreadCalls
    /\ threads' = [threads EXCEPT ![t] =
                      [@ EXCEPT !.pc = "ContainsChunk", !.file = f, !.pre = threads[t].system_info,
                                !.chunk_size = 0, !.buffer = 0, !.parser = 0,
                                !.system_node = JNull, !.result = FALSE,
                                !.calls = @ + 1]]
    /\ UNCHANGED <<heap, record_vars, text_vars, chunk_vars>>

\* Presence, version and size queries of thread t on its container, with
\* the two early returns.
ThreadQuery(t) ==
    /\ threads[t].pc \in {"ContainsChunk", "GetChunkVersion", "GetChunkDataSize"}
    /\ threads' = [threads EXCEPT ![t] =
          CASE threads[t].pc = "ContainsChunk" ->
                  [@ EXCEPT !.pc = IF threads[t].file.present THEN "GetChunkVersion" ELSE "done"]
            [] threads[t].pc = "GetChunkVersion" ->
                  [@ EXCEPT !.pc = IF threads[t].file.version > kSystemInfoChunkVersionMax
                                   THEN "done" ELSE "GetChunkDataSize"]
            [] OTHER -> [@ EXCEPT !.pc = "new", !.chunk_size = threads[t].file.chunk.size]]
    /\ UNCHANGED <<heap, record_vars, text_vars, chunk_vars>>

\* char* buffer = new char[chunk_size + 1];
ThreadNew(t) ==
    /\ threads[t].pc = "new"
    /\ \E a \in Allocate(heap) :
          /\ heap' = [heap EXCEPT ![a] =
                         [FreeBlock EXCEPT !.state = "allocated",
                                           !.capacity = threads[t].chunk_size + 1]]
          /\ threads' = [threads EXCEPT ![t] = [@ EXCEPT !.pc = "ReadChunkData", !.buffer = a]]
    /\ UNCHANGED <<record_vars, text_vars, chunk_vars>>

\* rdfChunkFileReadChunkData(..., buffer); buffer[chunk_size] = 0;
ThreadReadChunkData(t) ==
    /\ threads[t].pc = "ReadChunkData"
    /\ heap' = [heap EXCEPT ![threads[t].buffer] =
                   [@ EXCEPT !.filled = TRUE, !.terminated = TRUE,
                             !.data = threads[t].file.chunk.text]]
    /\ threads' = [threads EXCEPT ![t] = [@ EXCEPT !.pc = "Parse"]]
    /\ UNCHANGED <<record_vars, text_vars, chunk_vars>>

\* The node Parse hands to ProcessSystemNode: structure["system"] when
\* it exists, the structure itself otherwise.
StructureSystemNode(structure) ==
    IF DoesNodeExist(structure, "system") THEN structure.val["system"] ELSE structure

\* What the decode of thread t has done when it reaches the dispatch or
\* leaves without one: r is ProcessSystemNode up to CreateSystemInfoParser.
ThreadResolved(t, node, rv, kind) ==
    IF rv.threw \/ kind = "nullptr"
    THEN /\ threads' = [threads EXCEPT ![t] =
                           [@ EXCEPT !.pc = "delete", !.result = FALSE,
                                     !.system_info = [@ EXCEPT !.version = rv.out]]]
         /\ UNCHANGED heap
    ELSE \E a \in Allocate(heap) :
            /\ heap' = [heap EXCEPT ![a] =
                           [FreeBlock EXCEPT !.state = "allocated", !.vptr = kind]]
            /\ threads' = [threads EXCEPT ![t] =
                              [@ EXCEPT !.pc = "ProcessSystemValueNode", !.parser = a,
                                        !.system_node = node,
                                        !.system_info = [@ EXCEPT !.version = rv.out]]]

\* result = Parse(buffer, system_info), up to the creation of the parser:
\* the text is parsed, the version resolved and the parser object made.
ThreadParse(t) ==
    /\ threads[t].pc = "Parse"
    /\ \E text \in CStrings(heap[threads[t].buffer]) :
          IF ParseThrows(text)
          THEN /\ threads' = [threads EXCEPT ![t] = [@ EXCEPT !.pc = "delete", !.result = FALSE]]
               /\ UNCHANGED heap
          ELSE ThreadResolved(t, StructureSystemNode(parse(text)),
                              ResolveVersion(StructureSystemNode(parse(text)),
                                             threads[t].system_info.version),
                              CreateSystemInfoParser(
                                  ResolveVersion(StructureSystemNode(parse(text)),
                                                 threads[t].system_info.version).out.major))
    /\ UNCHANGED <<record_vars, text_vars, chunk_vars>>

\* What parser->ProcessSystemValueNode(...) leaves: the record as far as it
\* was written, true unless an exception reached the catch of Parse.
ThreadDecoded(t, r) ==
    threads' = [threads EXCEPT ![t] =
                   [@ EXCEPT !.pc = "delete", !.system_info = r.out, !.result = ~r.threw,
                             !.parser = 0, !.system_node = JNull]]

\* parser->ProcessSystemValueNode(system_node, system_info): the call goes
\* through the object the thread's pointer refers to, which is released
\* when the pointer goes out of scope.
ThreadProcessSystemValueNode(t) ==
    /\ threads[t].pc = "ProcessSystemValueNode"
    /\ ThreadDecoded(t, Dispatch(heap[threads[t].parser].vptr, threads[t].system_node,
                                 threads[t].system_info))
    /\ heap' = [heap EXCEPT ![threads[t].parser] = FreeBlock]
    /\ UNCHANGED <<record_vars, text_vars, chunk_vars>>

\* delete[] buffer; return result;
ThreadDelete(t) ==
    /\ threads[t].pc = "delete"
    /\ heap' = [heap EXCEPT ![threads[t].buffer] = FreeBlock]
    /\ threads' = [threads EXCEPT ![t] = [@ EXCEPT !.pc = "done", !.buffer = 0]]
    /\ UNCHANGED <<record_vars, text_vars, chunk_vars>>

ThreadNext ==
    \E t \in Threads :
        \/ \E f \in ThreadFiles : ThreadCall(t, f)
        \/ ThreadQuery(t)
        \/ ThreadNew(t)
        \/ ThreadReadChunkData(t)
        \/ ThreadParse(t)
        \/ ThreadProcessSystemValueNode(t)
        \/ ThreadDelete(t)

ThreadSpec == Init /\ [][ThreadNext]_vars

\* ------------------------------------------------------------------------
\* Properties
\* ------------------------------------------------------------------------

\* A call has been made and its text was a JSON document.
Decoded == calls > 0 /\ json.wellformed

\* The version part of the last call completed (no exception in it).
VersionResolved == Decoded /\ parser # "unset"

\* The subtree the last call decoded: the "system" member when the document
\* has one, otherwise the document.
SystemNodeOf(doc) ==
    IF doc.type = "object" /\ "system" \in DOMAIN doc.val THEN doc.val["system"] ELSE doc

KnownMajors == {U32(1), U32(2)}

C3_MalformedTextFails ==
    (calls > 0 /\ ~json.wellformed) =>
        /\ result = FALSE
        /\ caught = TRUE
        /\ system_info = pre

\* C3 witness: a malformed text was passed with a record that an earlier
\* call had populated.
C3_Witness ==
    /\ calls > 0
    /\ ~json.wellformed
    /\ result = FALSE
    /\ Len(pre.cpus) > 0


\* The sections of the system subtree in the order the parsers decode them;
\* each is decoded into the field of the same name.
SectionOrder == <<"devdriver", "driver", "os", "cpus", "gpus", "processes">>

\* The subtree S cut down to its version member and its first k sections.
Restrict(S, k) ==
    JObject([n \in (DOMAIN S.val) \cap ({"version"} \cup {SectionOrder[i] : i \in 1..k})
                |-> S.val[n]])

\* Decoding Restrict(S, k) into the record the last call started from.
PrefixRun(k) == Parse(Text(Restrict(SystemNodeOf(parse(json)), k)), pre)

\* The last call caught a type error raised while decoding the document.
TypeMismatch == Decoded /\ caught

\* C4 as stated: when a field that is read has the wrong JSON type, Parse
\* returns false and the record equals its value before the call.
C4_NoPartialEffects ==
    TypeMismatch => (result = FALSE /\ system_info = pre)

\* C4 amended: when a field that is read has the wrong JSON type, Parse
\* returns false and nothing is rolled back.  If the version member is the
\* offender, every section field keeps its value from before the call.
\* Otherwise there is a first offending section k: the version and the
\* sections before k hold exactly what decoding the document without
\* section k and its successors produces, and the sections after k keep
\* their values from before the call.
C4_NoRollback ==
    TypeMismatch =>
        /\ result = FALSE
        /\ IF parser = "unset"
           THEN \A i \in 1..Len(SectionOrder) :
                    system_info[SectionOrder[i]] = pre[SectionOrder[i]]
           ELSE /\ SystemNodeOf(parse(json)).type = "object"
                /\ \E k \in 1..Len(SectionOrder) :
                      /\ PrefixRun(k).caught
                      /\ ~PrefixRun(k - 1).caught
                      /\ system_info.version = PrefixRun(k - 1).out.version
                      /\ \A i \in 1..(k - 1) :
                            system_info[SectionOrder[i]] = PrefixRun(k - 1).out[SectionOrder[i]]
                      /\ \A i \in (k + 1)..Len(SectionOrder) :
                            system_info[SectionOrder[i]] = pre[SectionOrder[i]]

\* C4 witness: the second cpu of a document has a member of the wrong type;
\* the call returned false, and the driver section and the first cpu decoded
\* before it are in the record.
C4_Witness ==
    /\ TypeMismatch
    /\ parser # "unset"
    /\ result = FALSE
    /\ system_info.driver # pre.driver
    /\ Len(system_info.cpus) = Len(pre.cpus) + 1
    /\ system_info.processes = pre.processes


\* The last call's return value and record are those of the outcome r.
SameOutcome(r) == r.result = result /\ r.out = system_info

\* C5: a document S without a "system" member decodes, from equal starting
\* records, to the same return value and record as the enveloped document
\* {"system": S}; and a document with a "system" member decodes to what
\* its "system" value alone decodes to, whatever sibling members it has.
C5_EnvelopeEquivalence ==
    Decoded =>
        /\ (parse(json).type = "object" /\ ~DoesNodeExist(parse(json), "system"))
              => SameOutcome(Parse(Text(Envelope(parse(json))), pre))
        /\ (DoesNodeExist(parse(json), "system")
                /\ ~DoesNodeExist(parse(json).val["system"], "system"))
              => SameOutcome(Parse(Text(parse(json).val["system"]), pre))

\* C5 witness: a bare version-2 document with gpus and processes was decoded
\* successfully.
C5_Witness ==
    /\ Decoded
    /\ parse(json).type = "object"
    /\ ~DoesNodeExist(parse(json), "system")
    /\ result = TRUE
    /\ parser = "V2"
    /\ Len(system_info.gpus) > Len(pre.gpus)
    /\ Len(system_info.processes) > Len(pre.processes)

\* The number a version member or child stands for, or the default when the
\* parent has no such member.
VersionPart(parent, name, default) ==
    IF DoesNodeExist(parent, name) THEN Conv(parent.val[name], "uint32") ELSE default

\* C6: when the system subtree has an object "version", version.major,
\* minor, patch and build are its major, minor, patch and build children,
\* 2, 0, 0 and 0 standing in for missing ones; otherwise version.major is
\* the scalar "version", or 1 when there is none.  The parser is selected
\* from this major: V1 for 1, V2 for 2, none otherwise.
C6_VersionResolution ==
    VersionResolved =>
        LET S == SystemNodeOf(parse(json))
        IN  /\ IF DoesNodeExist(S, "version") /\ S.val["version"].type = "object"
               THEN system_info.version =
                        [major |-> VersionPart(S.val["version"], "major", U32(2)),
                         minor |-> VersionPart(S.val["version"], "minor", U32(0)),
                         patch |-> VersionPart(S.val["version"], "patch", U32(0)),
                         build |-> VersionPart(S.val["version"], "build", U32(0))]
               ELSE system_info.version.major = VersionPart(S, "version", U32(1))
            /\ parser = IF system_info.version.major = U32(1) THEN "V1"
                        ELSE IF system_info.version.major = U32(2) THEN "V2"
                        ELSE "nullptr"

\* C6 witness: a document whose version object has only a minor child was
\* decoded as version 2.7.0.0 by the V2 parser.
C6_Witness ==
    /\ VersionResolved
    /\ DoesNodeExist(SystemNodeOf(parse(json)), "version")
    /\ SystemNodeOf(parse(json)).val["version"] = JObject([minor |-> JUnsigned(7)])
    /\ system_info.version = [major |-> U32(2), minor |-> U32(7), patch |-> U32(0),
                              build |-> U32(0)]
    /\ parser = "V2"

\* The version member of the last document is a bare number, or absent.
ScalarOrAbsentVersion ==
    LET S == SystemNodeOf(parse(json))
    IN  DoesNodeExist(S, "version") => S.val["version"].type # "object"

\* C7 as stated: after decoding a document whose "version" is a bare integer
\* or absent, version.minor, version.patch and version.build are 0, whatever
\* they were before the call.
C7_MinorPatchBuildZero ==
    (VersionResolved /\ ScalarOrAbsentVersion) =>
        /\ system_info.version.minor = U32(0)
        /\ system_info.version.patch = U32(0)
        /\ system_info.version.build = U32(0)

\* C7 amended: decoding a document whose "version" is a bare integer or
\* absent writes version.major only; version.minor, version.patch and
\* version.build keep the values they held before the call (0 when the
\* record passed in was zero-initialised).
C7_KeepsMinorPatchBuild ==
    (VersionResolved /\ ScalarOrAbsentVersion) =>
        /\ system_info.version.minor = pre.version.minor
        /\ system_info.version.patch = pre.version.patch
        /\ system_info.version.build = pre.version.build
        /\ system_info.version.major = VersionPart(SystemNodeOf(parse(json)), "version", U32(1))

\* C7 witness: a document with "version": 1 was decoded successfully into a
\* record that held version 2.3.4.5, and holds version 1.3.4.5.
C7_Witness ==
    /\ VersionResolved
    /\ ScalarOrAbsentVersion
    /\ result = TRUE
    /\ pre.version = [major |-> U32(2), minor |-> U32(3), patch |-> U32(4), build |-> U32(5)]
    /\ system_info.version = [major |-> U32(1), minor |-> U32(3), patch |-> U32(4),
                              build |-> U32(5)]

\* The major version the last document states, in either form.
DocumentMajor ==
    LET S == SystemNodeOf(parse(json))
    IN  IF DoesNodeExist(S, "version") /\ S.val["version"].type = "object"
        THEN VersionPart(S.val["version"], "major", U32(2))
        ELSE VersionPart(S, "version", U32(1))

V1Outcome ==
    ProcessSystemValueNodeV1(SystemNodeOf(parse(json)),
                             [pre EXCEPT !.version = system_info.version])

\* C9: whenever the V2 parser ran, devdriver, driver, os, cpus and gpus are
\* exactly what the V1 parser produces from the same subtree and starting
\* record, and the record differs from the V1 parser's only in processes;
\* when the V1 part threw, processes is untouched as well.
C9_V2Additive ==
    (VersionResolved /\ parser = "V2") =>
        /\ \A f \in {"devdriver", "driver", "os", "cpus", "gpus"} :
              system_info[f] = V1Outcome.out[f]
        /\ [system_info EXCEPT !.processes = pre.processes] = V1Outcome.out
        /\ V1Outcome.threw => system_info.processes = pre.processes

\* C9 witness: the V2 parser decoded a document with gpus and processes.
C9_Witness ==
    /\ VersionResolved
    /\ parser = "V2"
    /\ result = TRUE
    /\ Len(system_info.gpus) > Len(pre.gpus)
    /\ Len(system_info.cpus) > Len(pre.cpus)
    /\ Len(system_info.processes) > Len(pre.processes)


\* The subtree S marked as version 1: a scalar version becomes 1, an object
\* version gets major 1 and keeps its other children.
MarkSubtreeV1(S) ==
    LET v == S.val["version"]
    IN  JObject([n \in DOMAIN S.val |->
            IF n # "version" THEN S.val[n]
            ELSE IF v.type = "object"
                 THEN JObject([c \in (DOMAIN v.val) \cup {"major"} |->
                                  IF c = "major" THEN JUnsigned(1) ELSE v.val[c]])
                 ELSE JUnsigned(1)])

\* The document marked as version 1, inside its envelope when it has one.
MarkV1(doc) ==
    IF DoesNodeExist(doc, "system")
    THEN JObject([n \in DOMAIN doc.val |->
                     IF n = "system" THEN MarkSubtreeV1(doc.val[n]) ELSE doc.val[n]])
    ELSE MarkSubtreeV1(doc)

\* The last call decoded a version-2 document that has no "processes" member.
V2WithoutProcesses ==
    /\ VersionResolved
    /\ parser = "V2"
    /\ ~DoesNodeExist(SystemNodeOf(parse(json)), "processes")

\* C10 as stated: the record decoded from a version-2 document without
\* "processes" equals, in every field, the record decoded from the same
\* document marked as version 1.
C10_SameRecordAsV1 ==
    V2WithoutProcesses => Parse(Text(MarkV1(parse(json))), pre).out = system_info

\* C10 amended: the same document marked as version 1 is decoded by the V1
\* parser with the same return value, and the two records are equal in
\* every field except version.major, which is 2 in one and 1 in the other.
C10_SameAsV1ExceptMajor ==
    V2WithoutProcesses =>
        /\ Parse(Text(MarkV1(parse(json))), pre).parser = "V1"
        /\ Parse(Text(MarkV1(parse(json))), pre).result = result
        /\ Parse(Text(MarkV1(parse(json))), pre).out
              = [system_info EXCEPT !.version.major = U32(1)]
        /\ system_info.version.major = U32(2)

\* C10 witness: a version-2 document with cpus and gpus and no "processes"
\* was decoded into a record that already held processes.
C10_Witness ==
    /\ V2WithoutProcesses
    /\ result = TRUE
    /\ Len(system_info.gpus) > Len(pre.gpus)
    /\ Len(pre.processes) > 0
    /\ system_info.processes = pre.processes


\* The last call returned true.
Succeeded == Decoded /\ result = TRUE

\* The top-level sections of the V1 parser.
V1Sections == {"devdriver", "driver", "os", "cpus", "gpus"}

\* The nested member at the end of path below the system subtree of the last
\* document is missing while every member before it on the path is there.
RECURSIVE MissingAt(_, _)
MissingAt(node, path) ==
    IF Len(path) = 1
    THEN ~DoesNodeExist(node, path[1])
    ELSE DoesNodeExist(node, path[1]) /\ MissingAt(node.val[path[1]], Tail(path))

Missing(path) == MissingAt(SystemNodeOf(parse(json)), path)

\* C11 as stated: after a successful Parse, every top-level field whose
\* subtree is absent from the document holds its type-default value.
C11_AbsentIsDefault ==
    Succeeded =>
        \A f \in V1Sections : Missing(<<f>>) => system_info[f] = SystemInfo0[f]

\* C11 amended: after a successful Parse, every output field whose subtree
\* is absent from the document holds the value it had in the record passed
\* in: the top-level sections, and within present sections os.memory,
\* os.config, the drm versions, the etw support info, the devdriver major
\* version and the driver packaging major and minor.
C11_AbsentIsUntouched ==
    Succeeded =>
        /\ \A f \in V1Sections : Missing(<<f>>) => system_info[f] = pre[f]
        /\ Missing(<<"os", "memory">>) => system_info.os.memory = pre.os.memory
        /\ Missing(<<"os", "config">>) => system_info.os.config = pre.os.config
        /\ Missing(<<"os", "config", "linux", "drm">>) =>
              /\ system_info.os.config.drm_major_version = pre.os.config.drm_major_version
              /\ system_info.os.config.drm_minor_version = pre.os.config.drm_minor_version
        /\ Missing(<<"os", "config", "windows", "etwSupport">>) =>
              system_info.os.config.etw_support_info = pre.os.config.etw_support_info
        /\ Missing(<<"devdriver", "version">>) =>
              system_info.devdriver.major_version = pre.devdriver.major_version
        /\ Missing(<<"driver", "packagingVersion">>) =>
              /\ system_info.driver.packaging_version_major = pre.driver.packaging_version_major
              /\ system_info.driver.packaging_version_minor = pre.driver.packaging_version_minor

\* C11 witness: a document without cpus and gpus, whose os has no memory,
\* whose devdriver has no version and whose driver has no packaging version,
\* was decoded successfully into a record that held all of them.
C11_Witness ==
    /\ Succeeded
    /\ Missing(<<"cpus">>)
    /\ Missing(<<"os", "memory">>)
    /\ Missing(<<"os", "config", "linux", "drm">>)
    /\ Missing(<<"devdriver", "version">>)
    /\ Missing(<<"driver", "packagingVersion">>)
    /\ Len(system_info.cpus) > 0
    /\ system_info.os.memory.physical = U64(16)
    /\ system_info.os.config.drm_major_version = U32(3)
    /\ system_info.devdriver.major_version = U32(42)
    /\ system_info.driver.packaging_version_major = U32(23)
    /\ system_info.driver.name = <<"e">>


\* The all-bits-set uint32_t.
AllBitsSet == <<Limb - 1, Limb - 1>>

\* The last call succeeded on a document whose "gpus" is an array; its
\* entries were appended after the ones the record already held.
GpusDecoded ==
    /\ Succeeded
    /\ DoesNodeExist(SystemNodeOf(parse(json)), "gpus")
    /\ SystemNodeOf(parse(json)).val["gpus"].type = "array"

GpuElement(i) == SystemNodeOf(parse(json)).val["gpus"].val[i]

GpuEntry(i) == system_info.gpus[Len(pre.gpus) + i]

\* C12: every gpu entry decoded from an element that supplies no gpuIndex,
\* because its asic has none or because it has no asic, has
\* asic.gpu_index = 0xFFFFFFFF.
C12_GpuIndexSentinel ==
    GpusDecoded =>
        \A i \in 1..Len(SystemNodeOf(parse(json)).val["gpus"].val) :
            ~(DoesNodeExist(GpuElement(i), "asic")
                  /\ DoesNodeExist(GpuElement(i).val["asic"], "gpuIndex"))
                => GpuEntry(i).asic.gpu_index = AllBitsSet


ProcessElements == SystemNodeOf(parse(json)).val["processes"].val

\* C13: when the resolved major is 1, system_info.processes is what it was
\* before the call even if the document has a "processes" member; when it
\* is 2 and the call succeeds, one Process per element of "processes" is
\* appended in order, with name, path and processId read from the element
\* and "", "" and 0 standing in for missing members.
C13_ProcessesV2Only ==
    /\ (VersionResolved /\ parser = "V1") => system_info.processes = pre.processes
    /\ (Succeeded /\ parser = "V2" /\ DoesNodeExist(SystemNodeOf(parse(json)), "processes")
            /\ SystemNodeOf(parse(json)).val["processes"].type = "array")
          => system_info.processes =
                pre.processes \o
                [i \in 1..Len(ProcessElements) |->
                    [name |-> Get(ProcessElements[i], "name", "string", <<>>),
                     path |-> Get(ProcessElements[i], "path", "string", <<>>),
                     id   |-> Get(ProcessElements[i], "processId", "uint32", U32(0))]]

\* C13 witness: a version-1 document with a "processes" member was decoded
\* successfully and the process list is as before the call.
C13_Witness ==
    /\ Succeeded
    /\ parser = "V1"
    /\ DoesNodeExist(SystemNodeOf(parse(json)), "processes")
    /\ Len(ProcessElements) > 0
    /\ Len(system_info.cpus) > Len(pre.cpus)
    /\ system_info.processes = pre.processes


\* The text is exactly what dump() writes for the value it stands for.
IsCompact(text) == text.wellformed /\ text = dump(parse(text))

\* C14: the string Parse returns "" for a text that is not a JSON document,
\* the text itself for a document without a top-level "system" member, and
\* otherwise the compact text of the value of "system" alone.
C14_DecodeToText ==
    text_calls > 0 =>
        /\ ~text_in.wellformed => text_out = EmptyString
        /\ (text_in.wellformed /\ ~DoesNodeExist(parse(text_in), "system"))
              => text_out = text_in
        /\ (text_in.wellformed /\ DoesNodeExist(parse(text_in), "system"))
              => /\ IsCompact(text_out)
                 /\ parse(text_out) = parse(text_in).val["system"]

\* C14 witness: an enveloped text with white space, members out of map
\* order and a sibling member was passed, and the string returned is not
\* part of it.
C14_Witness ==
    /\ text_calls > 0
    /\ text_in = WrittenEnvelope
    /\ text_out.wellformed
    /\ DoesNodeExist(parse(text_out), "gpus")
    /\ ~DoesNodeExist(parse(text_out), "extra")
    /\ text_out.src # text_in.src.val[1].value

\* The operations of one chunk retrieval, in the order of the code.
ChunkOrder ==
    <<"ContainsChunk", "GetChunkVersion", "GetChunkDataSize", "new", "ReadChunkData",
      "terminate", "Parse", "delete">>

Happened(op) == \E i \in 1..Len(trace) : trace[i] = op

Count(op) == Cardinality({i \in 1..Len(trace) : trace[i] = op})

Returned == pc = "done"

\* C15: when the container reports the chunk absent, the call returns
\* false having made the presence query only: no version query, no size
\* query, no read, no allocation, no decode, and the record is as it was
\* when the call was made.
C15_PresenceGate ==
    (Returned /\ ~file.present) =>
        /\ chunk_result = FALSE
        /\ trace = <<"ContainsChunk">>
        /\ buffer = NoBuffer
        /\ system_info = chunk_pre

C15_Witness ==
    /\ Returned
    /\ ~file.present
    /\ chunk_calls = 2
    /\ chunk_pre # SystemInfo0

\* C16: in a call on a chunk stored under a version above
\* kSystemInfoChunkVersionMax no read and no decode ever happens and the
\* call returns false; a version up to the maximum, 0 included, passes on
\* to the read.
C16_VersionGate ==
    /\ kSystemInfoChunkVersionMax = 1
    /\ (pc # "idle" /\ file.present /\ file.version > kSystemInfoChunkVersionMax) =>
          /\ ~Happened("ReadChunkData")
          /\ ~Happened("Parse")
          /\ Returned => chunk_result = FALSE /\ system_info = chunk_pre
    /\ (Returned /\ file.present /\ file.version <= kSystemInfoChunkVersionMax) =>
          /\ Happened("ReadChunkData")
          /\ Happened("Parse")

C16_Witness ==
    /\ Returned
    /\ file.present
    /\ file.version = 2
    /\ Parse(file.chunk.text, system_info).result
    /\ trace = <<"ContainsChunk", "GetChunkVersion">>

\* C17: the operations of a call happen in the order presence, version,
\* size, read, decode, the read at most once; the decoder is given a
\* buffer of size + 1 bytes holding the chunk's bytes with a zero at
\* [size], and the call returns the decode's success flag.
C17_Ordering ==
    /\ Len(trace) <= Len(ChunkOrder)
    /\ trace = SubSeq(ChunkOrder, 1, Len(trace))
    /\ Count("ReadChunkData") <= 1
    /\ pc = "Parse" =>
          /\ chunk_size = file.chunk.size
          /\ buffer.capacity = chunk_size + 1
          /\ buffer.filled
          /\ buffer.terminated
          /\ CStrings(buffer) = {file.chunk.text}
    /\ Happened("Parse") =>
          /\ json = file.chunk.text
          /\ chunk_result = Parse(json, pre).result
          /\ chunk_result = result

C17_Witness ==
    /\ Returned
    /\ trace = ChunkOrder
    /\ chunk_result
    /\ chunk_calls = 2
    /\ chunk_pre # SystemInfo0

\* C18: whichever way a call ends (chunk absent, version too new, decode
\* succeeded, decode failed) no buffer is allocated once it has returned;
\* a buffer is allocated for as long as it is used and is released
\* exactly once.
C18_BufferLifecycle ==
    /\ pc \in {"idle", "done"} => buffer.state \in {"none", "released"}
    /\ pc \in {"ReadChunkData", "terminate", "Parse", "delete"} => buffer.state = "allocated"
    /\ buffer.state = "none" <=> ~Happened("new")
    /\ buffer.state = "released" <=> Happened("delete")
    /\ Count("delete") <= Count("new")
    /\ Returned => Count("delete") = Count("new")

C18_Witness ==
    /\ Returned
    /\ buffer.state = "released"
    /\ Happened("Parse")
    /\ ~chunk_result

\* The decoded subtree and its collections, as values.
Sys == SystemNodeOf(parse(json))

Child(node, k) == IF DoesNodeExist(node, k) THEN node.val[k] ELSE JNull

Listed(node, k) == ~DoesNodeExist(node, k) \/ node.val[k].type = "array"

ArrayAt(node, k) == IF Child(node, k).type = "array" THEN Child(node, k).val ELSE <<>>

\* The subtree as written: members in document order.
SrcHas(s, k) == s.type = "object" /\ \E i \in DOMAIN s.val : s.val[i].key = k

SrcChild(s, k) ==
    IF SrcHas(s, k)
    THEN s.val[CHOOSE i \in DOMAIN s.val :
                  /\ s.val[i].key = k
                  /\ \A j \in DOMAIN s.val : s.val[j].key = k => j <= i].value
    ELSE JNull

SrcSys == IF SrcHas(json.src, "system") THEN SrcChild(json.src, "system") ELSE json.src

FromEmpty == Succeeded /\ pre = SystemInfo0

CpusInOrder ==
    Listed(Sys, "cpus") =>
        system_info.cpus =
            [i \in 1..Len(ArrayAt(Sys, "cpus")) |-> ProcessCpuNode(ArrayAt(Sys, "cpus")[i]).out]

ProcessesInOrder ==
    Listed(Sys, "processes") =>
        system_info.processes =
            [i \in 1..Len(ArrayAt(Sys, "processes")) |->
                ProcessProcessNode(ArrayAt(Sys, "processes")[i]).out]

RangesInOrder(gpu, e) ==
    Listed(Child(e, "memory"), "excludedVaRanges") =>
        gpu.memory.excluded_va_ranges =
            [j \in 1..Len(ArrayAt(Child(e, "memory"), "excludedVaRanges")) |->
                ProcessExcludedRangeNode(ArrayAt(Child(e, "memory"), "excludedVaRanges")[j]).out]

HeapsNode(e) == Child(Child(e, "memory"), "heaps")

HeapsInKeyOrder(gpu, e) ==
    HeapsNode(e).type \in {"object", "null"} =>
        LET ks == IF HeapsNode(e).type = "object"
                  THEN SelectSeq(KeyOrder, LAMBDA k: k \in DOMAIN HeapsNode(e).val)
                  ELSE <<>>
        IN  gpu.memory.heaps =
                [j \in 1..Len(ks) |->
                    ProcessHeapNode([keyed |-> TRUE, key |-> ks[j],
                                     node |-> HeapsNode(e).val[ks[j]]]).out]

WrittenHeaps(i) == SrcChild(SrcChild(SrcChild(SrcSys, "gpus").val[i], "memory"), "heaps")

HeapsInWrittenOrder(gpu, i) ==
    WrittenHeaps(i).type \in {"object", "null"} =>
        LET ms == IF WrittenHeaps(i).type = "object" THEN WrittenHeaps(i).val ELSE <<>>
        IN  /\ Len(gpu.memory.heaps) = Len(ms)
            /\ \A j \in 1..Len(ms) : gpu.memory.heaps[j].heap_type = KeyChars(ms[j].key)

RowIsValid(row) ==
    /\ row.type = "array"
    /\ \A j \in 1..Len(row.val) : row.val[j].type = "number_unsigned"

CuMaskRowPerElement(gpu, e) ==
    Listed(Child(e, "asic"), "cuMask") =>
        LET rows == ArrayAt(Child(e, "asic"), "cuMask")
        IN  /\ Len(gpu.asic.cu_mask) = Len(rows)
            /\ \A i \in 1..Len(rows) :
                  RowIsValid(rows[i]) =>
                      gpu.asic.cu_mask[i] =
                          [j \in 1..Len(rows[i].val) |-> CastU32(rows[i].val[j].val)]

CuMaskAllOrNothing(gpu, e) ==
    Listed(Child(e, "asic"), "cuMask") =>
        LET rows == ArrayAt(Child(e, "asic"), "cuMask")
        IN  IF \A i \in 1..Len(rows) : RowIsValid(rows[i])
            THEN CuMaskRowPerElement(gpu, e)
            ELSE gpu.asic.cu_mask = <<>>

GpusInOrder ==
    Listed(Sys, "gpus") =>
        /\ Len(system_info.gpus) = Len(ArrayAt(Sys, "gpus"))
        /\ \A i \in 1..Len(ArrayAt(Sys, "gpus")) :
              /\ system_info.gpus[i].name = Get(ArrayAt(Sys, "gpus")[i], "name", "string", <<>>)
              /\ RangesInOrder(system_info.gpus[i], ArrayAt(Sys, "gpus")[i])

\* C19 as stated: after a successful Parse into an empty record every
\* list has one entry per element of its collection in document order,
\* the heaps and the CU-mask rows included.
C19_DocumentOrder ==
    FromEmpty =>
        /\ CpusInOrder
        /\ ProcessesInOrder
        /\ GpusInOrder
        /\ Listed(Sys, "gpus") =>
              \A i \in 1..Len(ArrayAt(Sys, "gpus")) :
                  /\ HeapsInWrittenOrder(system_info.gpus[i], i)
                  /\ CuMaskRowPerElement(system_info.gpus[i], ArrayAt(Sys, "gpus")[i])

\* C19: after a successful Parse into an empty record cpus, gpus, each
\* gpu's excluded ranges and, for a version-2 document, processes have one
\* entry per array element in document order; heaps has one entry per
\* distinct key in ascending key order, heap_type being the key; cu_mask
\* has one row per element when every row is an array of unsigned
\* numbers and is empty otherwise.
C19_ListOrder ==
    FromEmpty =>
        /\ CpusInOrder
        /\ parser = "V2" => ProcessesInOrder
        /\ parser = "V1" => system_info.processes = <<>>
        /\ GpusInOrder
        /\ Listed(Sys, "gpus") =>
              \A i \in 1..Len(ArrayAt(Sys, "gpus")) :
                  /\ HeapsInKeyOrder(system_info.gpus[i], ArrayAt(Sys, "gpus")[i])
                  /\ CuMaskAllOrNothing(system_info.gpus[i], ArrayAt(Sys, "gpus")[i])

C19_Witness ==
    /\ FromEmpty
    /\ json = WrittenLists
    /\ Len(system_info.cpus) = 2
    /\ Len(system_info.processes) = 2
    /\ Len(system_info.gpus) = 2
    /\ Len(system_info.gpus[1].memory.heaps) = 2
    /\ system_info.gpus[1].memory.heaps[1].heap_type = KeyChars("invisible")
    /\ Len(system_info.gpus[1].memory.excluded_va_ranges) = 2
    /\ Len(system_info.gpus[1].asic.cu_mask) = 2
    /\ system_info.gpus[2].asic.cu_mask = <<>>

\* Hexadecimal digits and their values, -1 for any other character.
HexValue(c) ==
    CASE c \in {"0", "1", "2", "3", "4", "5", "6", "7", "8", "9"} ->
            CHOOSE v \in 0..9 : <<"0", "1", "2", "3", "4", "5", "6", "7", "8", "9">>[v + 1] = c
      [] c \in {"a", "A"} -> 10
      [] c \in {"b", "B"} -> 11
      [] c \in {"c", "C"} -> 12
      [] c \in {"d", "D"} -> 13
      [] c \in {"e", "E"} -> 14
      [] c \in {"f", "F"} -> 15
      [] OTHER -> -1

IsHex(c) == HexValue(c) >= 0

\* The gpu elements of the document that carry a luid string of even
\* length at most 16, and that string.
LuidOf(e) == Child(Child(Child(e, "asic"), "ids"), "luid")

HasEvenLuid(i) ==
    /\ LuidOf(GpuElement(i)).type = "string"
    /\ Len(LuidOf(GpuElement(i)).val) % 2 = 0
    /\ Len(LuidOf(GpuElement(i)).val) <= 2 * LuidSize

\* The byte of a slice whose two characters are hexadecimal digits, and 0
\* for every other slice.
ByteOrZero(a, b) == IF IsHex(a) /\ IsHex(b) THEN 16 * HexValue(a) + HexValue(b) ELSE 0

\* The byte of a slice: the digits at its front after white space and a
\* sign, negated modulo 256 after a minus sign.
ByteOfPrefix(a, b) ==
    CASE IsHex(a) /\ IsHex(b) -> 16 * HexValue(a) + HexValue(b)
      [] IsHex(a) /\ ~IsHex(b) -> HexValue(a)
      [] a \in {" ", "+"} /\ IsHex(b) -> HexValue(b)
      [] a = "-" /\ IsHex(b) -> (256 - HexValue(b)) % 256
      [] OTHER -> 0

\* C20 as stated: a slice with a character that is not a hexadecimal
\* digit gives the byte 0.
C20_MalformedIsZero ==
    GpusDecoded =>
        \A i \in 1..Len(SystemNodeOf(parse(json)).val["gpus"].val) :
            HasEvenLuid(i) =>
                LET s == LuidOf(GpuElement(i)).val
                IN  /\ Len(GpuEntry(i).asic.id_info.luid) = LuidSize
                    /\ \A k \in 1..LuidSize :
                          GpuEntry(i).asic.id_info.luid[k] =
                              IF 2 * k <= Len(s) THEN ByteOrZero(s[2 * k - 1], s[2 * k]) ELSE 0

\* C20: for a luid string of even length at most 16 the luid has 8 bytes;
\* byte k is the value of the two characters of slice k when both are
\* hexadecimal digits, the value of the first when only the first is one,
\* the value of the second (negated modulo 256 after a minus) when the
\* first is a space or a sign, and 0 otherwise; the bytes past the string
\* are 0 and the decode succeeds.
C20_HexBytes ==
    GpusDecoded =>
        \A i \in 1..Len(SystemNodeOf(parse(json)).val["gpus"].val) :
            HasEvenLuid(i) =>
                LET s == LuidOf(GpuElement(i)).val
                IN  /\ Len(GpuEntry(i).asic.id_info.luid) = LuidSize
                    /\ \A k \in 1..LuidSize :
                          GpuEntry(i).asic.id_info.luid[k] =
                              IF 2 * k <= Len(s) THEN ByteOfPrefix(s[2 * k - 1], s[2 * k]) ELSE 0

C20_Witness ==
    /\ GpusDecoded
    /\ json = WrittenLuids
    /\ pre # SystemInfo0
    /\ HasEvenLuid(1)
    /\ GpuEntry(1).asic.id_info.luid = <<1, 2, 3, 4, 5, 6, 7, 8>>
    /\ HasEvenLuid(2)
    /\ GpuEntry(2).asic.id_info.luid = <<1, 0, 0, 0, 0, 0, 0, 0>>
    /\ GpuEntry(4).asic.id_info.luid = <<255, 0, 0, 0, 0, 0, 0, 0>>
    /\ GpuEntry(8).asic.id_info.luid = <<0, 31, 0, 0, 0, 0, 0, 0>>

\* The driver's packagingVersion in the decoded document, when it is a
\* non-empty string.
PackagingVersionOf == Child(Child(Sys, "driver"), "packagingVersion")

HasPackagingVersion ==
    /\ Succeeded
    /\ PackagingVersionOf.type = "string"
    /\ PackagingVersionOf.val # <<>>

\* 0-based position of the first '.', the characters after it, and how
\* many of them at the front are decimal digits.
DotAt(s) == find_first_of(s, ".")

AfterDot(s) == SubSeq(s, DotAt(s) + 2, Len(s))

IsDecDigit(c) == c \in {"0", "1", "2", "3", "4", "5", "6", "7", "8", "9"}

\* C21: a packagingVersion without '.' leaves major and minor as they
\* were; otherwise major is the integer before the first '.', and minor
\* is the value of the run of digits after it, left as it was only when
\* no digit follows the '.'.
C21_DottedVersionPrefix ==
    HasPackagingVersion =>
        LET s == PackagingVersionOf.val
        IN  IF DotAt(s) = NPOS
            THEN /\ system_info.driver.packaging_version_major = pre.driver.packaging_version_major
                 /\ system_info.driver.packaging_version_minor = pre.driver.packaging_version_minor
            ELSE /\ system_info.driver.packaging_version_major =
                        IntToU32(atoi(SubSeq(s, 1, DotAt(s))))
                 /\ system_info.driver.packaging_version_minor =
                        IF AfterDot(s) # <<>> /\ IsDecDigit(Head(AfterDot(s)))
                        THEN U32(DigitRun(AfterDot(s), 10, 0))
                        ELSE pre.driver.packaging_version_minor

\* The cuMask node of gpu element i and the matrix decoded from it.
CuMaskOf(i) == Child(Child(GpuElement(i), "asic"), "cuMask")

HasCuMask(i) == DoesNodeExist(Child(GpuElement(i), "asic"), "cuMask")

WellFormedCuMask(node) ==
    /\ node.type = "array"
    /\ \A r \in 1..Len(node.val) : RowIsValid(node.val[r])

\* C22: the cu_mask decoded from a cuMask node is the whole node, every
\* row and every value (as a uint32) in order, when the node is an array
\* of arrays of unsigned numbers, and is empty when the node or any row
\* or any value is not; no other matrix is left in the record.
C22_CuMaskAllOrNothing ==
    GpusDecoded =>
        \A i \in 1..Len(SystemNodeOf(parse(json)).val["gpus"].val) :
            HasCuMask(i) =>
                GpuEntry(i).asic.cu_mask =
                    IF WellFormedCuMask(CuMaskOf(i))
                    THEN [r \in 1..Len(CuMaskOf(i).val) |->
                            [j \in 1..Len(CuMaskOf(i).val[r].val) |->
                                <<CuMaskOf(i).val[r].val[j].val[1],
                                  CuMaskOf(i).val[r].val[j].val[2]>>]]
                    ELSE <<>>

C22_Witness ==
    /\ GpusDecoded
    /\ json = WrittenCuMasks
    /\ HasCuMask(1) /\ WellFormedCuMask(CuMaskOf(1))
    /\ GpuEntry(1).asic.cu_mask = << <<U32(1), U32(2)>>, <<>>, <<U32(3)>> >>
    /\ HasCuMask(6) /\ ~WellFormedCuMask(CuMaskOf(6))
    /\ GpuEntry(6).asic.cu_mask = <<>>
    /\ GpuEntry(3).asic.cu_mask = <<>>
    /\ GpuEntry(5).asic.cu_mask = <<>>

\* What a call on container f and record info returns and leaves when no
\* other call runs.
Alone(f, info) ==
    IF ~f.present \/ f.version > kSystemInfoChunkVersionMax
    THEN [result |-> FALSE, out |-> info]
    ELSE [result |-> Parse(f.chunk.text, info).result, out |-> Parse(f.chunk.text, info).out]

\* The blocks of the free store thread t holds.
Held(t) == {threads[t].buffer, threads[t].parser} \ {0}

\* C23: however the steps of the threads' calls interleave, each call
\* returns and leaves in its record what it would when run alone, and no
\* two calls ever hold the same buffer or the same parser object.
C23_NoInterference ==
    /\ \A t \in Threads :
          /\ threads[t].pc \in {"delete", "done"} =>
                /\ threads[t].result = Alone(threads[t].file, threads[t].pre).result
                /\ threads[t].system_info = Alone(threads[t].file, threads[t].pre).out
          /\ threads[t].pc \in {"ContainsChunk", "GetChunkVersion", "GetChunkDataSize", "new",
                                "ReadChunkData", "Parse"} =>
                threads[t].system_info = threads[t].pre
          /\ \A a \in Held(t) : heap[a].state = "allocated"
          /\ threads[t].buffer # 0 => threads[t].buffer # threads[t].parser
    /\ \A t, u \in Threads : t # u => Held(t) \cap Held(u) = {}

C23_Witness ==
    /\ threads[1].pc = "delete"
    /\ threads[2].pc = "delete"
    /\ threads[1].result
    /\ threads[2].result
    /\ threads[1].file # threads[2].file
    /\ threads[1].system_info.processes = <<>>
    /\ threads[1].system_info.cpus # <<>>
    /\ threads[2].system_info.processes # <<>>

\* The bytes of the 2-character slices of s, zero-filled to 8 bytes.
PairBytes(s) ==
    [k \in 1..LuidSize |-> IF 2 * k <= Len(s) THEN ByteOfPrefix(s[2 * k - 1], s[2 * k]) ELSE 0]

HasOddLuid(i) ==
    /\ LuidOf(GpuElement(i)).type = "string"
    /\ Len(LuidOf(GpuElement(i)).val) % 2 = 1

\* C24 as stated: the luid of an odd-length string is the luid of the
\* string without its last character.
C24_TrailingDropped ==
    GpusDecoded =>
        \A i \in 1..Len(SystemNodeOf(parse(json)).val["gpus"].val) :
            HasOddLuid(i) =>
                GpuEntry(i).asic.id_info.luid =
                    PairBytes(SubSeq(LuidOf(GpuElement(i)).val, 1,
                                     Len(LuidOf(GpuElement(i)).val) - 1))

\* C24: for a luid string of odd length at most 15 the bytes of the
\* paired characters are those of the string without its last character,
\* and the last character gives one more byte, at index (len - 1) / 2:
\* its value when it is a hexadecimal digit, 0 otherwise.
C24_TrailingDecoded ==
    GpusDecoded =>
        \A i \in 1..Len(SystemNodeOf(parse(json)).val["gpus"].val) :
            (HasOddLuid(i) /\ Len(LuidOf(GpuElement(i)).val) < 2 * LuidSize) =>
                LET s == LuidOf(GpuElement(i)).val
                IN  GpuEntry(i).asic.id_info.luid =
                        [PairBytes(SubSeq(s, 1, Len(s) - 1)) EXCEPT
                            ![(Len(s) + 1) \div 2] =
                                IF IsHex(s[Len(s)]) THEN HexValue(s[Len(s)]) ELSE 0]

C24_Witness ==
    /\ GpusDecoded
    /\ json = WrittenLuids
    /\ HasOddLuid(Len(EvenLuids) + 1)
    /\ GpuEntry(Len(EvenLuids) + 1).asic.id_info.luid = <<171, 12, 0, 0, 0, 0, 0, 0>>
    /\ GpuEntry(Len(EvenLuids) + 3).asic.id_info.luid = <<18, 0, 0, 0, 0, 0, 0, 0>>
    /\ GpuEntry(Len(EvenLuids) + 4).asic.id_info.luid = <<1, 2, 3, 4, 5, 6, 7, 0>>

\* C25: whatever the luid string, the decode loop stores bytes at
\* luid[0..7] only, so the bytes from &luid[0] on that it wrote are 8 for
\* every gpu entry.
C25_WritesInsideLuid ==
    \A i \in 1..Len(system_info.gpus) :
        Len(system_info.gpus[i].asic.id_info.luid) = LuidSize

\* The "system" value of the text has a member "system" of its own.
Nested(text) ==
    /\ DoesNodeExist(parse(text), "system")
    /\ DoesNodeExist(parse(text).val["system"], "system")

\* text_out was decoded into the record; text_in is a document.
DecodedOutput == text_calls > 0 /\ text_in.wellformed /\ calls > 0 /\ json = text_out

PassedAgain == text_calls > 0 /\ text_in.wellformed /\ text_again # NoString

\* C26 as stated: for every document t, decoding the string Parse(t)
\* returns gives the return value and record of decoding t, and the
\* string Parse returns its own output unchanged, a "system" member inside
\* the "system" value included.
C26_StripCommutes ==
    /\ DecodedOutput => SameOutcome(Parse(text_in, pre))
    /\ PassedAgain => text_again = text_out

\* C26: for every document t whose "system" value has no member "system",
\* decoding the string Parse(t) returns gives the return value and record
\* of decoding t, and the string Parse returns that string unchanged; when
\* the "system" value has such a member, the second pass descends into it.
C26_StripCommutesUnnested ==
    /\ (DecodedOutput /\ ~Nested(text_in)) => SameOutcome(Parse(text_in, pre))
    /\ (PassedAgain /\ ~Nested(text_in)) => text_again = text_out
    /\ (DecodedOutput /\ Nested(text_in)) =>
          SameOutcome(Parse(Text(parse(text_in).val["system"].val["system"]), pre))
    /\ (PassedAgain /\ Nested(text_in)) =>
          parse(text_again) = parse(text_in).val["system"].val["system"]

C26_Witness ==
    /\ DecodedOutput
    /\ PassedAgain
    /\ text_in = WrittenEnvelope
    /\ text_out # text_in
    /\ text_again = text_out
    /\ result = TRUE
    /\ pre # SystemInfo0
    /\ system_info # pre

IsPrefix(a, b) == Len(a) <= Len(b) /\ SubSeq(b, 1, Len(a)) = a

\* C27: every call, successful or not, leaves the entries that cpus, gpus
\* and processes held before it in place at the front of the lists; a
\* successful decode of a document with k cpus (gpus, and for version 2
\* processes) makes the list k entries longer, so decoding the same
\* document again doubles what the first decode put there.
C27_ListsOnlyAppend ==
    calls > 0 =>
        /\ IsPrefix(pre.cpus, system_info.cpus)
        /\ IsPrefix(pre.gpus, system_info.gpus)
        /\ IsPrefix(pre.processes, system_info.processes)
        /\ (Succeeded /\ Listed(Sys, "cpus")) =>
              Len(system_info.cpus) = Len(pre.cpus) + Len(ArrayAt(Sys, "cpus"))
        /\ (Succeeded /\ Listed(Sys, "gpus")) =>
              Len(system_info.gpus) = Len(pre.gpus) + Len(ArrayAt(Sys, "gpus"))
        /\ (Succeeded /\ Listed(Sys, "processes") /\ parser = "V2") =>
              Len(system_info.processes) = Len(pre.processes) + Len(ArrayAt(Sys, "processes"))
        /\ (Succeeded /\ Listed(Sys, "cpus") /\ pre.cpus = Parse(json, SystemInfo0).out.cpus) =>
              Len(system_info.cpus) = 2 * Len(ArrayAt(Sys, "cpus"))

C27_Witness ==
    /\ calls = 2
    /\ Succeeded
    /\ pre = Parse(json, SystemInfo0).out
    /\ Len(ArrayAt(Sys, "cpus")) > 0
    /\ Len(system_info.cpus) = 2 * Len(ArrayAt(Sys, "cpus"))
    /\ Len(ArrayAt(Sys, "gpus")) > 0
    /\ Len(system_info.gpus) = 2 * Len(ArrayAt(Sys, "gpus"))
    /\ Len(ArrayAt(Sys, "processes")) > 0
    /\ Len(system_info.processes) = 2 * Len(ArrayAt(Sys, "processes"))

\* The members the decoder looks for in the document and in the subtree.
KnownKeys == {"system", "version", "driver", "devdriver", "os", "cpus", "gpus", "processes"}

\* A document with nothing the decoder looks for: not an object, or an
\* object (empty or not) without any of those members.
Contentless(doc) ==
    \/ doc.type # "object"
    \/ DOMAIN doc.val \cap KnownKeys = {}

\* C28: a document that is an empty object, an object without any known
\* member, an array or a scalar is accepted: Parse returns true, stores 1
\* in version.major and leaves every other field of the record as it was.
C28_ContentlessAccepted ==
    (Decoded /\ Contentless(parse(json))) =>
        /\ result = TRUE
        /\ caught = FALSE
        /\ system_info.version.major = U32(1)
        /\ system_info = [pre EXCEPT !.version.major = U32(1)]

C28_Witness ==
    /\ Decoded
    /\ json = WrittenUnknown
    /\ Contentless(parse(json))
    /\ pre.version.major = U32(2)
    /\ pre.version.minor # U32(0)
    /\ pre.cpus # <<>>
    /\ result = TRUE
    /\ system_info.version.major = U32(1)

====
